---- MODULE Spec2Model ----
(***************************************************************************)
(* sparse_dot_mkl: the marshalling layer between scipy.sparse matrices and *)
(* the sparse BLAS handles of the math kernel library, and the             *)
(* orchestration of one sparse-by-sparse product (dot_product_mkl).        *)
(*                                                                         *)
(* The vendor library is an external collaborator.  It is modelled as a    *)
(* table of handles (variable handles); every entry point returns a status *)
(* that the model draws from 0..MaxStatus, and acts only on status 0.      *)
(***************************************************************************)
EXTENDS Integers, Sequences, FiniteSets, TLC

VARIABLES
    MKL_INT,      \* MKL.MKL_INT / MKL.MKL_INT_NUMPY: the index width in bits
    discovery,    \* the width discovery made when the module is imported
    statuses,     \* the statuses the vendor library of this run may return
    handles,      \* vendor memory: handles[h] is the record behind handle h
    matrix_a,     \* the caller's left operand (a scipy.sparse matrix)
    matrix_b,     \* the caller's right operand
    budget,       \* calls of dot_product_mkl the caller still makes
    pc,           \* position inside dot_product_mkl, or how the call ended
    args,         \* cast, copy, reorder_output, debug of the current call
    entry,        \* the operands and the handle count when the current call began
    locals,       \* mkl_a, a_dbl, mkl_b, b_dbl, mkl_c of the current call
    python_c,     \* the matrix the call returned (NoMatrix: none)
    error,        \* the exception the call raised (NoError: none)
    trace,        \* vendor entry points invoked by the current call, in order
    baseline,     \* the handles that were live before the first call
    history       \* the calls that ended before the current one, in order

vars == <<MKL_INT, discovery, statuses, handles, matrix_a, matrix_b, budget, pc, args, entry,
          locals, python_c, error, trace, baseline, history>>

----------------------------------------------------------------------------
(* Bounds of the model.                                                    *)

\* largest inner dimension: columns of A and rows of B
MaxInner == 2
\* the vendor returns a status in 0..MaxStatus
MaxStatus == 7
\* calls of dot_product_mkl in the repeated-call specification
MaxCalls == 2

----------------------------------------------------------------------------
(* Host sparse matrices: format, shape, dtype and the three arrays.        *)

NUMPY_FLOAT_DTYPES == {"float32", "float64"}

\* dtypes a caller may hand in: the two supported ones and an integer one
Dtypes == NUMPY_FLOAT_DTYPES \cup {"int64"}

Formats == {"csr", "csc"}

NoMatrix == [format |-> "none"]
NoError == [exc |-> "none", kind |-> "none", fn |-> "", detail |-> <<>>]
NoHandle == 0

RECURSIVE SortedSeq(_)
SortedSeq(S) ==
    IF S = {} THEN <<>>
    ELSE LET m == CHOOSE x \in S : \A y \in S : x <= y
         IN  <<m>> \o SortedSeq(S \ {m})

\* p[s] is the set of minor indices stored in major slice s
RECURSIVE PatternIndices(_, _)
PatternIndices(p, n) ==
    IF n = 0 THEN <<>> ELSE PatternIndices(p, n - 1) \o SortedSeq(p[n])

RECURSIVE PatternIndptr(_, _)
PatternIndptr(p, n) ==
    IF n = 0 THEN <<0>>
    ELSE LET q == PatternIndptr(p, n - 1)
         IN  Append(q, q[Len(q)] + Cardinality(p[n]))

\* the stored value at minor index j: 1, 2, ... so that entries differ
StoredValue(j) == j + 1

MajorDim(fmt, shape) == IF fmt = "csr" THEN shape[1] ELSE shape[2]
MinorDim(fmt, shape) == IF fmt = "csr" THEN shape[2] ELSE shape[1]

HostMatrix(fmt, rows, cols, dtype, width, p) ==
    LET major == MajorDim(fmt, <<rows, cols>>)
        ind == PatternIndices(p, major)
    IN  [format |-> fmt, shape |-> <<rows, cols>>, dtype |-> dtype,
         index_dtype |-> width,
         indptr |-> PatternIndptr(p, major),
         indices |-> ind,
         data |-> [t \in 1..Len(ind) |-> StoredValue(ind[t])],
         base |-> NoHandle]

\* every valid matrix of the given shape range (canonical index order)
HostMatrices(rowset, colset, width) ==
    UNION { UNION { { HostMatrix(fmt, r, c, dt, width, p) :
                        p \in [1..MajorDim(fmt, <<r, c>>) ->
                                 SUBSET (0..(MinorDim(fmt, <<r, c>>) - 1))] } :
                    dt \in Dtypes, fmt \in Formats } :
            r \in rowset, c \in colset }

\* an empty matrix as scipy builds it from a shape and a dtype
EmptyMatrix(fmt, shape, dtype) ==
    [format |-> fmt, shape |-> shape, dtype |-> dtype, index_dtype |-> 32,
     indptr |-> [t \in 1..(MajorDim(fmt, shape) + 1) |-> 0],
     indices |-> <<>>, data |-> <<>>, base |-> NoHandle]

----------------------------------------------------------------------------
(* The vendor library.  A handle is an index into handles; the record      *)
(* behind it holds the four-array form the library keeps.                  *)

VendorStatus == 0..MaxStatus

\* the entries of major slice s of a handle, as <<index, value>> pairs
HandleSlice(h, s) ==
    LET b == h.rows_start[s]
        e == h.rows_end[s]
    IN  [t \in 1..(e - b) |-> <<h.col_indx[b + t], h.values[b + t]>>]

RECURSIVE FlattenSlices(_, _)
FlattenSlices(slices, n) ==
    IF n = 0 THEN <<>> ELSE FlattenSlices(slices, n - 1) \o slices[n]

RECURSIVE SliceOffsets(_, _)
SliceOffsets(slices, n) ==
    IF n = 0 THEN <<0>>
    ELSE LET q == SliceOffsets(slices, n - 1)
         IN  Append(q, q[Len(q)] + Len(slices[n]))

\* a live handle holding the given slices
PackHandle(fmt, dbl, rows, cols, slices) ==
    LET major == MajorDim(fmt, <<rows, cols>>)
        flat == FlattenSlices(slices, major)
        off == SliceOffsets(slices, major)
    IN  [live |-> TRUE, format |-> fmt, double |-> dbl, indexing |-> 0,
         rows |-> rows, cols |-> cols,
         rows_start |-> SubSeq(off, 1, major),
         rows_end |-> SubSeq(off, 2, major + 1),
         col_indx |-> [t \in 1..Len(flat) |-> flat[t][1]],
         values |-> [t \in 1..Len(flat) |-> flat[t][2]]]

\* mkl_sparse_?_create_csr / _csc: the handle records the arrays it is given
mkl_sparse_create(fmt, dbl, indexing, rows, cols, ptr_b, ptr_e, indx, vals) ==
    [live |-> TRUE, format |-> fmt, double |-> dbl, indexing |-> indexing,
     rows |-> rows, cols |-> cols,
     rows_start |-> ptr_b, rows_end |-> ptr_e,
     col_indx |-> indx, values |-> vals]

RECURSIVE SortPairs(_)
SortPairs(S) ==
    IF S = {} THEN <<>>
    ELSE LET m == CHOOSE x \in S : \A y \in S : x[1] <= y[1]
         IN  <<m>> \o SortPairs(S \ {m})

Range(f) == { f[x] : x \in DOMAIN f }

Reverse(q) == [t \in 1..Len(q) |-> q[Len(q) + 1 - t]]

\* an order call that leaves the handle as it is
mkl_sparse_order_Noop(h) == h

\* mkl_sparse_order: ascending indices inside every major slice
mkl_sparse_order(h) ==
    LET major == MajorDim(h.format, <<h.rows, h.cols>>)
        slices == [s \in 1..major |-> SortPairs(Range(HandleSlice(h, s)))]
        flat == FlattenSlices(slices, major)
    IN  [h EXCEPT !.col_indx = [t \in 1..Len(flat) |-> flat[t][1]],
                  !.values = [t \in 1..Len(flat) |-> flat[t][2]]]

\* the sum of a[i,k] * b[k,j] over a set of <<a entry, b entry>> pairs
RECURSIVE SumTerms(_)
SumTerms(S) ==
    IF S = {} THEN 0
    ELSE LET xy == CHOOSE z \in S : TRUE
         IN  xy[1][2] * xy[2][2] + SumTerms(S \ {xy})

\* row i of the product of two compressed-row handles, as a set of pairs
ProductRow(a, b, i) ==
    LET ra == Range(HandleSlice(a, i))
        rb(k) == Range(HandleSlice(b, k + 1))
        hits == { xy \in ra \X UNION { rb(x[1]) : x \in ra } :
                    xy[2] \in rb(xy[1][1]) }
        js == { xy[2][1] : xy \in hits }
    IN  { <<j, SumTerms({ xy \in hits : xy[2][1] = j })>> : j \in js }

\* mkl_sparse_spmm (non-transposed): a new compressed-row handle with the
\* structural product; the order of the indices inside a row is the
\* library's choice (descending or ascending here)
mkl_sparse_spmm(a, b, descending) ==
    LET slices == [i \in 1..a.rows |->
                     IF descending THEN Reverse(SortPairs(ProductRow(a, b, i)))
                     ELSE SortPairs(ProductRow(a, b, i))]
    IN  PackHandle("csr", a.double, a.rows, b.cols, slices)

\* mkl_sparse_destroy: the memory behind the handle is released
mkl_sparse_destroy(h) == [h EXCEPT !.live = FALSE]

LiveHandles == { h \in 1..Len(handles) : handles[h].live }

\* the offsets of a handle lie inside the arrays it holds
WellFormed(h) ==
    LET major == MajorDim(h.format, <<h.rows, h.cols>>)
    IN  /\ Len(h.rows_start) >= major /\ Len(h.rows_end) >= major
        /\ \A s \in 1..major :
              /\ 0 <= h.rows_start[s]
              /\ h.rows_start[s] <= h.rows_end[s]
              /\ h.rows_end[s] <= Len(h.col_indx)
              /\ h.rows_end[s] <= Len(h.values)

\* the entries of a handle as <<row, column, value>>, rows and columns from 0
HandleEntries(h) ==
    LET major == MajorDim(h.format, <<h.rows, h.cols>>)
    IN  UNION { { IF h.format = "csr" THEN <<s - 1, e[1], e[2]>>
                  ELSE <<e[1], s - 1, e[2]>> : e \in Range(HandleSlice(h, s)) } :
                s \in 1..major }

\* mkl_sparse_convert_csr: a new compressed-row handle with the same entries
mkl_sparse_convert_csr(h) ==
    LET slices == [i \in 1..h.rows |->
                     SortPairs({ <<e[2], e[3]>> : e \in
                                   { x \in HandleEntries(h) : x[1] = i - 1 } })]
    IN  PackHandle("csr", h.double, h.rows, h.cols, slices)

\* an index array bound with one integer width as a library built for
\* another width reads it, element by element: a 64-bit array read as 32-bit
\* shows each value followed by its zero upper half; a 32-bit array read as
\* 64-bit joins neighbours, and an element with a non-zero upper half is an
\* offset outside every array (written -1)
ReadIndexArray(q, bound, lib) ==
    IF bound = lib THEN q
    ELSE IF bound = 64
    THEN [t \in 1..Len(q) |-> IF t % 2 = 1 THEN q[(t + 1) \div 2] ELSE 0]
    ELSE [t \in 1..Len(q) |->
            IF 2 * t <= Len(q) /\ q[2 * t] = 0 THEN q[2 * t - 1] ELSE -1]

\* the handle a library of width lib holds after a create call whose index
\* arrays were bound with width bound
ReadAs(h, bound, lib) ==
    [h EXCEPT !.rows_start = ReadIndexArray(@, bound, lib),
              !.rows_end = ReadIndexArray(@, bound, lib),
              !.col_indx = ReadIndexArray(@, bound, lib)]

----------------------------------------------------------------------------
(* The wrappers around the vendor entry points.  ret_val is the status the *)
(* vendor returns for the call the wrapper makes.                          *)

RETURN_CODES ==
    (0 :> "SPARSE_STATUS_SUCCESS") @@
    (1 :> "SPARSE_STATUS_NOT_INITIALIZED") @@
    (2 :> "SPARSE_STATUS_ALLOC_FAILED") @@
    (3 :> "SPARSE_STATUS_INVALID_VALUE") @@
    (4 :> "SPARSE_STATUS_EXECUTION_FAILED") @@
    (5 :> "SPARSE_STATUS_INTERNAL_ERROR") @@
    (6 :> "SPARSE_STATUS_NOT_SUPPORTED")

Raised(exc, kind, fn, detail) ==
    [exc |-> exc, kind |-> kind, fn |-> fn, detail |-> detail]

\* one vendor call: the entry point, the operand it is made for, the handle
\* it is made on (for a creating call, the handle it returns; NoHandle when
\* there is none) and the status the vendor returned
VendorCall(fn, operand, handle, ret_val) ==
    [fn |-> fn, on |-> operand, handle |-> handle, ret_val |-> ret_val]

Tag(called, operand, handle, ret_val) ==
    [t \in 1..Len(called) |-> VendorCall(called[t], operand, handle, ret_val)]

\* raise ValueError("{fn} returned {v} ({e})".format(..., e=RETURN_CODES[ret_val]))
\* the lookup of a status the table does not hold raises KeyError instead
VendorError(fn, ret_val) ==
    IF ret_val \in DOMAIN RETURN_CODES
    THEN Raised("ValueError", "VendorCallFailed", fn, <<RETURN_CODES[ret_val]>>)
    ELSE Raised("KeyError", "KeyError", "", <<>>)

\* the index arrays are copied to the width of MKL_INT when they differ
_check_scipy_index_typing(sparse_matrix) ==
    IF sparse_matrix.index_dtype # MKL_INT
    THEN [sparse_matrix EXCEPT !.index_dtype = MKL_INT]
    ELSE sparse_matrix

\* a choice of create entry point that ignores the precision flag
CreateFunc_AlwaysDouble(fmt, double_precision) ==
    [name |-> "mkl_sparse_d_create_" \o fmt, format |-> fmt, double |-> TRUE]

\* the create entry point for a format and a precision
CreateFunc(fmt, double_precision) ==
    [name |-> "mkl_sparse_" \o (IF double_precision THEN "d" ELSE "s")
                 \o "_create_" \o fmt,
     format |-> fmt, double |-> double_precision]

\* the export entry point for a format and a precision
ExportFunc(fmt, double_precision) ==
    [name |-> "mkl_sparse_" \o (IF double_precision THEN "d" ELSE "s")
                 \o "_export_" \o fmt,
     format |-> fmt, double |-> double_precision]

\* a create call that hands the dimensions over in the wrong order
_pass_mkl_handle_SwapDims(data, handle_func, ret_val) ==
    IF ret_val # 0
    THEN [error |-> VendorError(handle_func.name, ret_val),
          ref |-> NoHandle, handles |-> handles]
    ELSE [error |-> NoError,
          ref |-> Len(handles) + 1,
          handles |-> Append(handles,
              mkl_sparse_create(handle_func.format, handle_func.double, 0,
                  data.shape[2], data.shape[1],
                  SubSeq(data.indptr, 1, Len(data.indptr) - 1),
                  SubSeq(data.indptr, 2, Len(data.indptr)),
                  data.indices, data.data))]

_pass_mkl_handle(data, handle_func, ret_val) ==
    IF ret_val # 0
    THEN [error |-> VendorError(handle_func.name, ret_val),
          ref |-> NoHandle, handles |-> handles]
    ELSE [error |-> NoError,
          ref |-> Len(handles) + 1,
          handles |-> Append(handles,
              mkl_sparse_create(handle_func.format, handle_func.double, 0,
                  data.shape[1], data.shape[2],
                  SubSeq(data.indptr, 1, Len(data.indptr) - 1),
                  SubSeq(data.indptr, 2, Len(data.indptr)),
                  data.indices, data.data))]

\* the result names the matrix as the call leaves it, the handle and the
\* precision flag returned, and the vendor entry points invoked
_create_mkl_sparse(matrix, cast, ret_val) ==
    LET supported == matrix.dtype \in NUMPY_FLOAT_DTYPES
        double_precision == matrix.dtype # "float32"
        casted == IF supported THEN matrix
                  ELSE [matrix EXCEPT !.dtype = "float64"]
        typed == _check_scipy_index_typing(casted)
        fail(m, e) == [error |-> e, matrix |-> m, ref |-> NoHandle,
                       double_precision |-> double_precision,
                       handles |-> handles, called |-> <<>>]
        pass(func) ==
            LET r == _pass_mkl_handle(typed, func, ret_val)
            IN  [error |-> r.error, matrix |-> typed, ref |-> r.ref,
                 double_precision |-> double_precision,
                 handles |-> r.handles, called |-> <<func.name>>]
    IN  IF ~supported /\ ~cast
        THEN fail(matrix, Raised("ValueError", "UnsupportedDtype", "", <<>>))
        ELSE IF Len(typed.data) # Len(typed.indices)
        THEN fail(typed, Raised("AssertionError", "AssertionError", "", <<>>))
        ELSE IF typed.format = "csr"
        THEN IF Len(typed.indptr) # typed.shape[1] + 1
             THEN fail(typed, Raised("AssertionError", "AssertionError", "", <<>>))
             ELSE pass(CreateFunc("csr", double_precision))
        ELSE IF typed.format = "csc"
        THEN IF Len(typed.indptr) # typed.shape[2] + 1
             THEN fail(typed, Raised("AssertionError", "AssertionError", "", <<>>))
             ELSE pass(CreateFunc("csc", double_precision))
        ELSE fail(typed, Raised("ValueError", "UnsupportedFormat", "", <<>>))

\* scipy's csr_matrix / csc_matrix built from (data, indices, indptr) and a
\* shape: the constructor's check_format refuses three arrays that do not
\* fit together, with a ValueError
sp_matrix_constructor(m) ==
    IF \/ Len(m.indptr) # MajorDim(m.format, m.shape) + 1
       \/ m.indptr[1] # 0
       \/ Len(m.indices) # Len(m.data)
       \/ m.indptr[Len(m.indptr)] > Len(m.indices)
    THEN [error |-> Raised("ValueError", "InvalidThreeArrays", "", <<>>),
          matrix |-> NoMatrix]
    ELSE [error |-> NoError, matrix |-> m]

\* the first n elements of a vendor buffer
Buffer(q, n) == [t \in 1..n |-> q[t]]

\* an export that accepts a negative number of stored values
_export_mkl_NoNegativeCheck(csr_mkl_handle, double_precision, output_type, copy, ret_val) ==
    LET out_func == ExportFunc(output_type, double_precision)
        final_dtype == IF double_precision THEN "float64" ELSE "float32"
        h == handles[csr_mkl_handle]
        nrows == h.rows
        ncols == h.cols
        index_dim == IF output_type = "csr" THEN nrows ELSE ncols
        indptrb == Buffer(h.rows_start, index_dim)
        indptren == <<indptrb[1]>> \o Buffer(h.rows_end, index_dim)
        nnz == indptren[Len(indptren)] - indptrb[1]
        \* read: the vendor buffers turned into arrays (as_array) so far
        ret(e, m, read) == [error |-> e, matrix |-> m, called |-> <<out_func.name>>,
                            read |-> read]
        pointers == {"rows_start", "rows_end"}
    IN  IF output_type \notin {"csr", "csc"}
        THEN [error |-> Raised("ValueError", "UnsupportedFormat", "", <<>>),
              matrix |-> NoMatrix, called |-> <<>>, read |-> {}]
        ELSE IF ret_val # 0
        THEN ret(VendorError(out_func.name, ret_val), NoMatrix, {})
        ELSE IF h.indexing # 0
        THEN ret(Raised("ValueError", "UnsupportedIndexOrdering", "", <<>>),
                 NoMatrix, {})
        ELSE IF nrows = 0 \/ ncols = 0
        THEN ret(NoError, EmptyMatrix(output_type, <<nrows, ncols>>, final_dtype), {})
        ELSE IF nnz = 0
        THEN ret(NoError, EmptyMatrix(output_type, <<nrows, ncols>>, final_dtype),
                 pointers)
        ELSE IF nnz > ncols * nrows
        THEN ret(Raised("ValueError", "CorruptExport", "", <<nrows, ncols, nnz>>),
                 NoMatrix, pointers)
        ELSE LET built == sp_matrix_constructor(
                     [format |-> output_type, shape |-> <<nrows, ncols>>,
                      dtype |-> final_dtype, index_dtype |-> MKL_INT,
                      indptr |-> indptren,
                      indices |-> Buffer(h.col_indx, nnz),
                      data |-> Buffer(h.values, nnz),
                      base |-> IF copy THEN NoHandle ELSE csr_mkl_handle])
             IN  ret(built.error, built.matrix,
                     pointers \cup {"col_indx", "values"})

\* an export that looks at the dimensions before the index ordering
_export_mkl_DimsBeforeOrdering(csr_mkl_handle, double_precision, output_type, copy, ret_val) ==
    LET out_func == ExportFunc(output_type, double_precision)
        final_dtype == IF double_precision THEN "float64" ELSE "float32"
        h == handles[csr_mkl_handle]
        nrows == h.rows
        ncols == h.cols
        index_dim == IF output_type = "csr" THEN nrows ELSE ncols
        indptrb == Buffer(h.rows_start, index_dim)
        indptren == <<indptrb[1]>> \o Buffer(h.rows_end, index_dim)
        nnz == indptren[Len(indptren)] - indptrb[1]
        \* read: the vendor buffers turned into arrays (as_array) so far
        ret(e, m, read) == [error |-> e, matrix |-> m, called |-> <<out_func.name>>,
                            read |-> read]
        pointers == {"rows_start", "rows_end"}
    IN  IF output_type \notin {"csr", "csc"}
        THEN [error |-> Raised("ValueError", "UnsupportedFormat", "", <<>>),
              matrix |-> NoMatrix, called |-> <<>>, read |-> {}]
        ELSE IF ret_val # 0
        THEN ret(VendorError(out_func.name, ret_val), NoMatrix, {})
        ELSE IF nrows = 0 \/ ncols = 0
        THEN ret(NoError, EmptyMatrix(output_type, <<nrows, ncols>>, final_dtype), {})
        ELSE IF h.indexing # 0
        THEN ret(Raised("ValueError", "UnsupportedIndexOrdering", "", <<>>),
                 NoMatrix, {})
        ELSE IF nnz = 0
        THEN ret(NoError, EmptyMatrix(output_type, <<nrows, ncols>>, final_dtype),
                 pointers)
        ELSE IF nnz < 0 \/ nnz > ncols * nrows
        THEN ret(Raised("ValueError", "CorruptExport", "", <<nrows, ncols, nnz>>),
                 NoMatrix, pointers)
        ELSE LET built == sp_matrix_constructor(
                     [format |-> output_type, shape |-> <<nrows, ncols>>,
                      dtype |-> final_dtype, index_dtype |-> MKL_INT,
                      indptr |-> indptren,
                      indices |-> Buffer(h.col_indx, nnz),
                      data |-> Buffer(h.values, nnz),
                      base |-> IF copy THEN NoHandle ELSE csr_mkl_handle])
             IN  ret(built.error, built.matrix,
                     pointers \cup {"col_indx", "values"})

_export_mkl(csr_mkl_handle, double_precision, output_type, copy, ret_val) ==
    LET out_func == ExportFunc(output_type, double_precision)
        final_dtype == IF double_precision THEN "float64" ELSE "float32"
        h == handles[csr_mkl_handle]
        nrows == h.rows
        ncols == h.cols
        index_dim == IF output_type = "csr" THEN nrows ELSE ncols
        indptrb == Buffer(h.rows_start, index_dim)
        indptren == <<indptrb[1]>> \o Buffer(h.rows_end, index_dim)
        nnz == indptren[Len(indptren)] - indptrb[1]
        \* read: the vendor buffers turned into arrays (as_array) so far
        ret(e, m, read) == [error |-> e, matrix |-> m, called |-> <<out_func.name>>,
                            read |-> read]
        pointers == {"rows_start", "rows_end"}
    IN  IF output_type \notin {"csr", "csc"}
        THEN [error |-> Raised("ValueError", "UnsupportedFormat", "", <<>>),
              matrix |-> NoMatrix, called |-> <<>>, read |-> {}]
        ELSE IF ret_val # 0
        THEN ret(VendorError(out_func.name, ret_val), NoMatrix, {})
        ELSE IF h.indexing # 0
        THEN ret(Raised("ValueError", "UnsupportedIndexOrdering", "", <<>>),
                 NoMatrix, {})
        ELSE IF nrows = 0 \/ ncols = 0
        THEN ret(NoError, EmptyMatrix(output_type, <<nrows, ncols>>, final_dtype), {})
        ELSE IF nnz = 0
        THEN ret(NoError, EmptyMatrix(output_type, <<nrows, ncols>>, final_dtype),
                 pointers)
        ELSE IF nnz < 0 \/ nnz > ncols * nrows
        THEN ret(Raised("ValueError", "CorruptExport", "", <<nrows, ncols, nnz>>),
                 NoMatrix, pointers)
        ELSE LET built == sp_matrix_constructor(
                     [format |-> output_type, shape |-> <<nrows, ncols>>,
                      dtype |-> final_dtype, index_dtype |-> MKL_INT,
                      indptr |-> indptren,
                      indices |-> Buffer(h.col_indx, nnz),
                      data |-> Buffer(h.values, nnz),
                      base |-> IF copy THEN NoHandle ELSE csr_mkl_handle])
             IN  ret(built.error, built.matrix,
                     pointers \cup {"col_indx", "values"})

_matmul_mkl(mat_ref_a, mat_ref_b, sp_ref_a, sp_ref_b, descending, ret_val) ==
    IF ret_val # 0
    THEN [error |-> VendorError("mkl_sparse_spmm", ret_val),
          ref |-> NoHandle, handles |-> handles]
    ELSE IF Len(mat_ref_a.data) # Len(mat_ref_a.indices)
            \/ Len(mat_ref_b.data) # Len(mat_ref_b.indices)
    THEN [error |-> Raised("AssertionError", "AssertionError", "", <<>>),
          ref |-> NoHandle,
          handles |-> Append(handles,
              mkl_sparse_spmm(handles[sp_ref_a], handles[sp_ref_b], descending))]
    ELSE [error |-> NoError,
          ref |-> Len(handles) + 1,
          handles |-> Append(handles,
              mkl_sparse_spmm(handles[sp_ref_a], handles[sp_ref_b], descending))]

_destroy_mkl_handle(ref_handle, ret_val) ==
    IF ret_val # 0
    THEN [error |-> VendorError("mkl_sparse_destroy", ret_val), handles |-> handles]
    ELSE [error |-> NoError,
          handles |-> IF ref_handle \in DOMAIN handles
                      THEN [handles EXCEPT ![ref_handle] = mkl_sparse_destroy(@)]
                      ELSE handles]

_order_mkl_handle(ref_handle, ret_val) ==
    IF ret_val # 0
    THEN [error |-> VendorError("mkl_sparse_order", ret_val), handles |-> handles]
    ELSE [error |-> NoError,
          handles |-> [handles EXCEPT ![ref_handle] = mkl_sparse_order(@)]]

\* csr_ref is the null handle when the conversion fails; the wrapper then
\* hands it to _destroy_mkl_handle (status destroy_ret) before it raises
_convert_to_csr(ref_handle, ret_val, destroy_ret) ==
    IF ret_val # 0
    THEN LET d == _destroy_mkl_handle(NoHandle, destroy_ret)
         IN  [error |-> IF d.error # NoError THEN d.error
                        ELSE Raised("ValueError", "ConversionFailed", "", <<>>),
              ref |-> NoHandle, handles |-> d.handles,
              called |-> <<VendorCall("mkl_sparse_convert_csr", "csr_ref",
                                      NoHandle, ret_val),
                           VendorCall("mkl_sparse_destroy", "csr_ref",
                                      NoHandle, destroy_ret)>>]
    ELSE [error |-> NoError,
          ref |-> Len(handles) + 1,
          handles |-> Append(handles, mkl_sparse_convert_csr(handles[ref_handle])),
          called |-> <<VendorCall("mkl_sparse_convert_csr", "csr_ref",
                                  Len(handles) + 1, ret_val)>>]

----------------------------------------------------------------------------
(* dot_product_mkl, one action per vendor call it makes.                   *)

is_csr(m) == m.format = "csr"

Min(S) == CHOOSE x \in S : \A y \in S : x <= y

\* an edge-condition test that looks at the shapes alone
IsDegenerate_ShapeOnly(a, b) ==
    Min({a.shape[1], a.shape[2], b.shape[1], b.shape[2]}) = 0

\* the edge-condition test of the inputs which result in empty outputs
IsDegenerate(a, b) ==
    Min({a.shape[1], a.shape[2], b.shape[1], b.shape[2],
         Len(a.data), Len(b.data), Len(a.indices), Len(b.indices)}) = 0

\* an empty output that is float64 whatever the operands are
DegenerateDtype_AlwaysDouble(a, b) == "float64"

\* final_dtype of the empty output
DegenerateDtype(a, b) ==
    IF a.dtype # b.dtype \/ a.dtype # "float32" THEN "float64" ELSE "float32"

\* the shape handed to csr_matrix for the empty output:
\* (matrix_a.shape[0], matrix_b.shape[0])
DegenerateShape(a, b) == <<a.shape[1], b.shape[1]>>

\* matrix.data if matrix.dtype == np.float64 else matrix.data.astype(np.float64)
RecastData(m) ==
    IF m.dtype = "float64" THEN m ELSE [m EXCEPT !.dtype = "float64"]

\* a check ends the call (pc "raised" or "returned") or passes the operands on
EndCall(to, e, m, a, b) == [pc |-> to, error |-> e, python_c |-> m, a |-> a, b |-> b]
PassOn(a, b) == EndCall("next", NoError, NoMatrix, a, b)

\* if not is_csr(matrix_a) or not is_csr(matrix_b): raise ValueError
FormatCheck(a, b) ==
    IF ~is_csr(a) \/ ~is_csr(b)
    THEN EndCall("raised", Raised("ValueError", "UnsupportedFormat", "", <<>>),
                 NoMatrix, a, b)
    ELSE PassOn(a, b)

\* if matrix_a.shape[1] != matrix_b.shape[0]: raise ValueError
AlignmentCheck(a, b) ==
    IF a.shape[2] # b.shape[1]
    THEN EndCall("raised", Raised("ValueError", "DimensionMismatch", "", <<>>),
                 NoMatrix, a, b)
    ELSE PassOn(a, b)

\* edge condition inputs: return an empty csr_matrix
EmptyCheck(a, b) ==
    IF IsDegenerate(a, b)
    THEN EndCall("returned", NoError,
                 EmptyMatrix("csr", DegenerateShape(a, b), DegenerateDtype(a, b)),
                 a, b)
    ELSE PassOn(a, b)

\* a dtype check that lets every pair of operands through
DtypeCheck_LetsAllThrough(a, b, cast) == PassOn(a, b)

\* differing dtypes: recast both to float64 with cast, raise ValueError without
DtypeCheck(a, b, cast) ==
    IF a.dtype # b.dtype /\ cast
    THEN PassOn(RecastData(a), RecastData(b))
    ELSE IF a.dtype # b.dtype
    THEN EndCall("raised",
                 Raised("ValueError", "DtypeMismatch", "", <<a.dtype, b.dtype>>),
                 NoMatrix, a, b)
    ELSE PassOn(a, b)

RunCheck(name, a, b, cast) ==
    CASE name = "format" -> FormatCheck(a, b)
      [] name = "alignment" -> AlignmentCheck(a, b)
      [] name = "empty" -> EmptyCheck(a, b)
      [] name = "dtype" -> DtypeCheck(a, b, cast)

\* the checks in the given order; the call goes on to the first create
\* when all of them pass
RECURSIVE RunChecks(_, _, _, _)
RunChecks(order, a, b, cast) ==
    IF order = <<>> THEN EndCall("create_a", NoError, NoMatrix, a, b)
    ELSE LET r == RunCheck(Head(order), a, b, cast)
         IN  IF r.pc = "next" THEN RunChecks(Tail(order), r.a, r.b, cast) ELSE r

\* the dtype check moved in front of the edge-condition check
Prologue_DtypeFirst(a, b, cast) ==
    RunChecks(<<"format", "alignment", "dtype", "empty">>, a, b, cast)

\* the edge-condition check moved in front of the alignment check
Prologue_EmptyFirst(a, b, cast) ==
    RunChecks(<<"format", "empty", "alignment", "dtype">>, a, b, cast)

\* the alignment check moved in front of the format check
Prologue_AlignmentFirst(a, b, cast) ==
    RunChecks(<<"alignment", "format", "empty", "dtype">>, a, b, cast)

\* the checks dot_product_mkl makes before the first vendor call, in the
\* order of the source: where the call goes next, the error or the matrix it
\* ends with, and the operands as the checks leave them
Prologue(a, b, cast) ==
    RunChecks(<<"format", "alignment", "empty", "dtype">>, a, b, cast)

NoLocals ==
    [mkl_a |-> NoHandle, a_dbl |-> FALSE, mkl_b |-> NoHandle, b_dbl |-> FALSE,
     mkl_c |-> NoHandle, dbg_a |-> NoMatrix, dbg_b |-> NoMatrix,
     python_c |-> NoMatrix]

\* the exception leaves dot_product_mkl: nothing is returned
Raise(e) ==
    /\ pc' = "raised"
    /\ error' = e
    /\ UNCHANGED <<locals, python_c>>

\* the call goes on with its locals updated, or returns python_c
Goto(to, newlocals) ==
    /\ locals' = newlocals
    /\ pc' = IF to = "return" THEN "returned" ELSE to
    /\ python_c' = IF to = "return" THEN newlocals.python_c ELSE python_c
    /\ UNCHANGED error

\* the call and its checks up to the first vendor call
dot_product_mkl ==
    /\ pc \in {"idle", "returned", "raised"}
    /\ budget > 0
    /\ \E cast, copy, reorder_output, debug \in BOOLEAN :
         LET p == Prologue(matrix_a, matrix_b, cast)
         IN  /\ args' = [cast |-> cast, copy |-> copy,
                         reorder_output |-> reorder_output, debug |-> debug]
             /\ pc' = p.pc
             /\ error' = p.error
             /\ python_c' = p.python_c
             /\ matrix_a' = p.a
             /\ matrix_b' = p.b
    /\ budget' = budget - 1
    /\ entry' = [a |-> matrix_a, b |-> matrix_b, nhandles |-> Len(handles)]
    /\ history' = IF pc = "idle" THEN history
                  ELSE Append(history, [pc |-> pc, entry |-> entry, args |-> args,
                                        python_c |-> python_c, error |-> error])
    /\ locals' = NoLocals
    /\ trace' = <<>>
    /\ UNCHANGED <<MKL_INT, discovery, statuses, handles, baseline>>

\* mkl_a, a_dbl = _create_mkl_sparse(matrix_a, cast=cast)
CreateA ==
    /\ pc = "create_a"
    /\ \E ret_val \in statuses :
         LET r == _create_mkl_sparse(matrix_a, args.cast, ret_val)
         IN  /\ matrix_a' = r.matrix
             /\ handles' = r.handles
             /\ trace' = trace \o Tag(r.called, "a", r.ref, ret_val)
             /\ IF r.error = NoError
                THEN Goto("create_b", [locals EXCEPT !.mkl_a = r.ref,
                                                     !.a_dbl = r.double_precision])
                ELSE Raise(r.error)
    /\ UNCHANGED <<MKL_INT, discovery, statuses, matrix_b, budget, args, entry, baseline, history>>

\* mkl_b, b_dbl = _create_mkl_sparse(matrix_b, cast=cast)
CreateB ==
    /\ pc = "create_b"
    /\ \E ret_val \in statuses :
         LET r == _create_mkl_sparse(matrix_b, args.cast, ret_val)
         IN  /\ matrix_b' = r.matrix
             /\ handles' = r.handles
             /\ trace' = trace \o Tag(r.called, "b", r.ref, ret_val)
             /\ IF r.error = NoError
                THEN Goto("order_a", [locals EXCEPT !.mkl_b = r.ref,
                                                    !.b_dbl = r.double_precision])
                ELSE Raise(r.error)
    /\ UNCHANGED <<MKL_INT, discovery, statuses, matrix_a, budget, args, entry, baseline, history>>

\* _order_mkl_handle(mkl_a)
OrderA ==
    /\ pc = "order_a"
    /\ \E ret_val \in statuses :
         LET r == _order_mkl_handle(locals.mkl_a, ret_val)
         IN  /\ handles' = r.handles
             /\ trace' = Append(trace, VendorCall("mkl_sparse_order", "a",
                                                 locals.mkl_a, ret_val))
             /\ IF r.error = NoError THEN Goto("order_b", locals) ELSE Raise(r.error)
    /\ UNCHANGED <<MKL_INT, discovery, statuses, matrix_a, matrix_b, budget, args, entry, baseline, history>>

\* _order_mkl_handle(mkl_b)
OrderB ==
    /\ pc = "order_b"
    /\ \E ret_val \in statuses :
         LET r == _order_mkl_handle(locals.mkl_b, ret_val)
         IN  /\ handles' = r.handles
             /\ trace' = Append(trace, VendorCall("mkl_sparse_order", "b",
                                                 locals.mkl_b, ret_val))
             /\ IF r.error = NoError
                THEN Goto(IF args.debug THEN "debug_export_a" ELSE "matmul", locals)
                ELSE Raise(r.error)
    /\ UNCHANGED <<MKL_INT, discovery, statuses, matrix_a, matrix_b, budget, args, entry, baseline, history>>

\* if debug: dbg_a = _export_mkl(mkl_a, a_dbl, copy=False, output_type=...)
DebugExportA ==
    /\ pc = "debug_export_a"
    /\ \E ret_val \in statuses :
         LET r == _export_mkl(locals.mkl_a, locals.a_dbl,
                              IF is_csr(matrix_a) THEN "csr" ELSE "csc",
                              FALSE, ret_val)
         IN  /\ trace' = trace \o Tag(r.called, "a", locals.mkl_a, ret_val)
             /\ IF r.error = NoError
                THEN Goto("debug_export_b", [locals EXCEPT !.dbg_a = r.matrix])
                ELSE Raise(r.error)
    /\ UNCHANGED <<MKL_INT, discovery, statuses, handles, matrix_a, matrix_b, budget, args, entry,
                   baseline, history>>

\* dbg_b = _export_mkl(mkl_b, b_dbl, ...), then the two shape assertions
DebugExportB ==
    /\ pc = "debug_export_b"
    /\ \E ret_val \in statuses :
         LET r == _export_mkl(locals.mkl_b, locals.b_dbl,
                              IF is_csr(matrix_b) THEN "csr" ELSE "csc",
                              FALSE, ret_val)
         IN  /\ trace' = trace \o Tag(r.called, "b", locals.mkl_b, ret_val)
             /\ IF r.error # NoError
                THEN Raise(r.error)
                ELSE IF locals.dbg_a.shape # matrix_a.shape
                        \/ r.matrix.shape # matrix_b.shape
                THEN Raise(Raised("AssertionError", "AssertionError", "", <<>>))
                ELSE Goto("matmul", [locals EXCEPT !.dbg_b = r.matrix])
    /\ UNCHANGED <<MKL_INT, discovery, statuses, handles, matrix_a, matrix_b, budget, args, entry,
                   baseline, history>>

\* a result handle that is destroyed whatever copy is
AfterExport_AlwaysDestroy == IF args.debug THEN "debug_stats" ELSE "destroy"

\* where the call goes after the export of the result
AfterExport == IF args.debug THEN "debug_stats"
               ELSE IF args.copy THEN "destroy" ELSE "return"

\* mkl_c = _matmul_mkl(matrix_a, matrix_b, mkl_a, mkl_b)
Matmul ==
    /\ pc = "matmul"
    /\ \E ret_val \in statuses, descending \in BOOLEAN :
         LET r == _matmul_mkl(matrix_a, matrix_b, locals.mkl_a, locals.mkl_b,
                              descending, ret_val)
         IN  /\ handles' = r.handles
             /\ trace' = Append(trace, VendorCall("mkl_sparse_spmm", "c",
                                    IF ret_val = 0 THEN Len(handles) + 1 ELSE NoHandle,
                                    ret_val))
             /\ IF r.error = NoError
                THEN Goto(IF args.reorder_output THEN "reorder" ELSE "export",
                          [locals EXCEPT !.mkl_c = r.ref])
                ELSE Raise(r.error)
    /\ UNCHANGED <<MKL_INT, discovery, statuses, matrix_a, matrix_b, budget, args, entry, baseline, history>>

\* if reorder_output: _order_mkl_handle(mkl_c)
ReorderOutput ==
    /\ pc = "reorder"
    /\ \E ret_val \in statuses :
         LET r == _order_mkl_handle(locals.mkl_c, ret_val)
         IN  /\ handles' = r.handles
             /\ trace' = Append(trace, VendorCall("mkl_sparse_order", "c",
                                                 locals.mkl_c, ret_val))
             /\ IF r.error = NoError THEN Goto("export", locals) ELSE Raise(r.error)
    /\ UNCHANGED <<MKL_INT, discovery, statuses, matrix_a, matrix_b, budget, args, entry, baseline, history>>

\* the precision flag handed to the export of the result
ResultPrecision == locals.a_dbl \/ locals.b_dbl

\* statistics after which the result handle is never destroyed
AfterStats_NeverDestroy == "return"

\* where the call goes after the statistics of the output
AfterStats == IF args.copy THEN "destroy" ELSE "return"

\* python_c = _export_mkl(mkl_c, a_dbl or b_dbl, copy=copy, output_type="csr")
Export ==
    /\ pc = "export"
    /\ \E ret_val \in statuses :
         LET r == _export_mkl(locals.mkl_c, ResultPrecision, "csr", args.copy, ret_val)
         IN  /\ trace' = trace \o Tag(r.called, "c", locals.mkl_c, ret_val)
             /\ IF r.error = NoError
                THEN Goto(AfterExport, [locals EXCEPT !.python_c = r.matrix])
                ELSE Raise(r.error)
    /\ UNCHANGED <<MKL_INT, discovery, statuses, handles, matrix_a, matrix_b, budget, args, entry,
                   baseline, history>>

\* statistics that rebind the entry points with 32-bit indices
DebugStats_Rebinds ==
    /\ pc = "debug_stats"
    /\ MKL_INT' = 32
    /\ IF Len(locals.python_c.data) = 0
       THEN Raise(Raised("ValueError", "ZeroSizeReduction", "", <<>>))
       ELSE Goto(AfterStats, locals)
    /\ UNCHANGED <<discovery, statuses, handles, matrix_a, matrix_b, budget, args, entry,
                   trace, baseline, history>>

\* if debug: the statistics of the output, python_c.data.min() among them;
\* the minimum of an empty array raises ValueError
DebugStats ==
    /\ pc = "debug_stats"
    /\ IF Len(locals.python_c.data) = 0
       THEN Raise(Raised("ValueError", "ZeroSizeReduction", "", <<>>))
       ELSE Goto(AfterStats, locals)
    /\ UNCHANGED <<MKL_INT, discovery, statuses, handles, matrix_a, matrix_b, budget, args, entry,
                   trace, baseline, history>>

\* if copy: _destroy_mkl_handle(mkl_c)
Destroy ==
    /\ pc = "destroy"
    /\ \E ret_val \in statuses :
         LET r == _destroy_mkl_handle(locals.mkl_c, ret_val)
         IN  /\ handles' = r.handles
             /\ trace' = Append(trace, VendorCall("mkl_sparse_destroy", "c",
                                                 locals.mkl_c, ret_val))
             /\ IF r.error = NoError THEN Goto("return", locals) ELSE Raise(r.error)
    /\ UNCHANGED <<MKL_INT, discovery, statuses, matrix_a, matrix_b, budget, args, entry, baseline, history>>

----------------------------------------------------------------------------
(* The import of the module: the discovery of the integer width of the     *)
(* library, one action per vendor call _validate_dtype makes.              *)

\* MKL.MKL_INT = None
NoWidth == 0

\* test_array of _validate_dtype: a compressed-column float32 matrix with
\* scipy's 32-bit index arrays
test_array == HostMatrix("csc", 2, 2, "float32", 32, <<{0, 1}, {1}>>)

\* MKL._set_int_type(c_type, np_type): MKL_INT and MKL_INT_NUMPY are set
\* together and every entry point is bound with that width
_set_int_type(c_type, np_type) == c_type

RECURSIVE SumValues(_, _)
SumValues(data, T) ==
    IF T = {} THEN 0
    ELSE LET t == CHOOSE x \in T : TRUE
         IN  data[t] + SumValues(data, T \ {t})

\* matrix.A: the dense form, the stored values of a position summed
Dense(m) ==
    LET major(t) == CHOOSE s \in 1..(Len(m.indptr) - 1) :
                        m.indptr[s] < t /\ t <= m.indptr[s + 1]
        at(t) == IF m.format = "csr" THEN <<major(t), m.indices[t] + 1>>
                 ELSE <<m.indices[t] + 1, major(t)>>
    IN  [ij \in (1..m.shape[1]) \X (1..m.shape[2]) |->
            SumValues(m.data, { t \in 1..Len(m.data) : at(t) = ij })]

\* the entry points of the MKL class
EntryPoints ==
    {"mkl_sparse_d_create_csr", "mkl_sparse_s_create_csr",
     "mkl_sparse_d_create_csc", "mkl_sparse_s_create_csc",
     "mkl_sparse_d_export_csr", "mkl_sparse_s_export_csr",
     "mkl_sparse_d_export_csc", "mkl_sparse_s_export_csc",
     "mkl_sparse_spmm", "mkl_sparse_destroy", "mkl_sparse_order",
     "mkl_sparse_convert_csr"}

\* the class as it is defined: no entry point has argtypes
Unbound == [f \in EntryPoints |-> NoWidth]

\* the entry points whose argtypes _set_int_type assigns, in the order of
\* its assignments
ArgtypesAssigned ==
    <<"mkl_sparse_d_create_csr", "mkl_sparse_s_create_csr",
      "mkl_sparse_d_create_csc", "mkl_sparse_s_create_csc",
      "mkl_sparse_d_export_csr", "mkl_sparse_s_export_csr",
      "mkl_sparse_d_export_csc", "mkl_sparse_s_export_csr",
      "mkl_sparse_spmm", "mkl_sparse_destroy", "mkl_sparse_order">>

\* the argtypes after MKL._set_int_type(c_type, np_type): argtypes[f] is the
\* index width of the signature f was last given, NoWidth when it has none
RECURSIVE AssignArgtypes(_, _, _)
AssignArgtypes(argtypes, assigned, c_type) ==
    IF assigned = <<>> THEN argtypes
    ELSE AssignArgtypes([argtypes EXCEPT ![Head(assigned)] = c_type],
                        Tail(assigned), c_type)

BindArgtypes(argtypes, c_type) == AssignArgtypes(argtypes, ArgtypesAssigned, c_type)

\* the discovery record before the import, with a library of width lib
NotStarted(lib) ==
    [lib_int |-> lib, attempts |-> <<>>, csc_ref |-> NoHandle, csr_ref |-> NoHandle,
     precision_flag |-> FALSE, argtypes |-> Unbound]

\* the discovery record of a module imported with width w
Imported(lib, w) ==
    [lib_int |-> lib,
     attempts |->
         IF w = 64 THEN <<[width |-> 64, outcome |-> "passed", raised |-> NoError]>>
         ELSE <<[width |-> 64, outcome |-> "failed",
                 raised |-> Raised("AssertionError", "AssertionError", "", <<>>)],
                [width |-> 32, outcome |-> "passed", raised |-> NoError]>>,
     csc_ref |-> NoHandle, csr_ref |-> NoHandle, precision_flag |-> FALSE,
     argtypes |-> IF w = 64 THEN BindArgtypes(Unbound, 64)
                  ELSE BindArgtypes(BindArgtypes(Unbound, 64), 32)]

\* a run of _validate_dtype with the entry points bound with width w
Attempt(w) == [width |-> w, outcome |-> "running", raised |-> NoError]

\* the run under way ends: it passed, it raised an exception that is caught
\* ("failed"), or it raised one that is not ("escaped")
EndAttempt(outcome, e) ==
    [discovery.attempts EXCEPT ![Len(discovery.attempts)] =
        [width |-> @.width, outcome |-> outcome, raised |-> e]]

\* try statements that catch the handle errors alone
Caught_ValueErrorOnly(e) == e.exc = "ValueError"

\* the exceptions the module-level try statements catch
Caught(e) == e.exc \in {"AssertionError", "ValueError"}

\* if MKL.MKL_INT is None: MKL._set_int_type(_ctypes.c_longlong, np.int64)
ImportModule ==
    /\ pc = "import"
    /\ MKL_INT = NoWidth
    /\ MKL_INT' = _set_int_type(64, 64)
    /\ discovery' = [discovery EXCEPT !.attempts = <<Attempt(64)>>,
                                      !.argtypes = BindArgtypes(@, 64)]
    /\ pc' = "validate_create"
    /\ UNCHANGED <<statuses, handles, matrix_a, matrix_b, budget, args, entry, locals,
                   python_c, error, trace, baseline, history>>

\* _validate_dtype() raised e: the first attempt falls back to 32-bit
\* indices when the exception is caught, the second one raises ImportError;
\* an exception that is not caught leaves the import as it is
ValidationRaised(e) ==
    IF Caught(e) /\ Len(discovery.attempts) = 1
    THEN /\ MKL_INT' = _set_int_type(32, 32)
         /\ discovery' = [discovery EXCEPT
                             !.attempts = Append(EndAttempt("failed", e), Attempt(32)),
                             !.csc_ref = NoHandle, !.csr_ref = NoHandle,
                             !.argtypes = BindArgtypes(@, 32)]
         /\ pc' = "validate_create"
         /\ UNCHANGED error
    ELSE /\ MKL_INT' = MKL_INT
         /\ discovery' = [discovery EXCEPT
                             !.attempts = EndAttempt(IF Caught(e) THEN "failed"
                                                     ELSE "escaped", e)]
         /\ pc' = "import_failed"
         /\ error' = IF Caught(e)
                     THEN Raised("ImportError", "InitializationFailed", "", <<>>)
                     ELSE e

\* csc_ref, precision_flag = _create_mkl_sparse(test_array)
ValidateCreate ==
    /\ pc = "validate_create"
    /\ \E ret_val \in statuses :
         LET r == _create_mkl_sparse(test_array, FALSE, ret_val)
         IN  /\ trace' = trace \o Tag(r.called, "csc_ref", r.ref, ret_val)
             /\ IF r.error = NoError
                THEN /\ handles' = [r.handles EXCEPT
                                       ![r.ref] = ReadAs(@, MKL_INT, discovery.lib_int)]
                     /\ discovery' = [discovery EXCEPT
                                         !.csc_ref = r.ref,
                                         !.precision_flag = r.double_precision]
                     /\ pc' = "validate_convert"
                     /\ UNCHANGED <<MKL_INT, error>>
                ELSE /\ handles' = r.handles
                     /\ ValidationRaised(r.error)
    /\ UNCHANGED <<statuses, matrix_a, matrix_b, budget, args, entry, locals, python_c,
                   baseline, history>>

\* csr_ref = _convert_to_csr(csc_ref); the library rejects a handle whose
\* offsets it cannot follow
ValidateConvert ==
    /\ pc = "validate_convert"
    /\ \E ret_val \in statuses, destroy_ret \in statuses :
         /\ WellFormed(handles[discovery.csc_ref]) \/ ret_val # 0
         /\ ret_val = 0 => destroy_ret = 0
         /\ LET r == _convert_to_csr(discovery.csc_ref, ret_val, destroy_ret)
            IN  /\ handles' = r.handles
                /\ trace' = trace \o r.called
                /\ IF r.error = NoError
                   THEN /\ discovery' = [discovery EXCEPT !.csr_ref = r.ref]
                        /\ pc' = "validate_export"
                        /\ UNCHANGED <<MKL_INT, error>>
                   ELSE ValidationRaised(r.error)
    /\ UNCHANGED <<statuses, matrix_a, matrix_b, budget, args, entry, locals, python_c,
                   baseline, history>>

\* final_array = _export_mkl(csr_ref, precision_flag), then
\* assert_array_almost_equal(test_comparison, final_array.A); when it passes
\* the module is imported and dot_product_mkl can be called
ValidateExport ==
    /\ pc = "validate_export"
    /\ \E ret_val \in statuses :
         LET r == _export_mkl(discovery.csr_ref, discovery.precision_flag, "csr",
                              FALSE, ret_val)
         IN  /\ trace' = trace \o Tag(r.called, "csr_ref", discovery.csr_ref, ret_val)
             /\ IF r.error # NoError
                THEN ValidationRaised(r.error) /\ UNCHANGED baseline
                ELSE IF Dense(r.matrix) # Dense(test_array)
                THEN /\ ValidationRaised(Raised("AssertionError", "AssertionError",
                                                "", <<>>))
                     /\ UNCHANGED baseline
                ELSE /\ discovery' = [discovery EXCEPT !.attempts = EndAttempt("passed", NoError)]
                     /\ pc' = "idle"
                     /\ baseline' = LiveHandles
                     /\ UNCHANGED <<MKL_INT, error>>
    /\ UNCHANGED <<statuses, handles, matrix_a, matrix_b, budget, args, entry, locals,
                   python_c, history>>

----------------------------------------------------------------------------
(* Specifications.                                                         *)

IntWidths == {32, 64}

\* rows of A and columns of B: none or one
OuterDims == {0, 1}

\* the operands a caller may hand in, with scipy's 32-bit index arrays
OperandsA == HostMatrices(OuterDims, 0..MaxInner, 32)
OperandsB == HostMatrices(0..MaxInner, OuterDims, 32)

\* no call of dot_product_mkl made yet
NoCallYet ==
    /\ handles = <<>>
    /\ baseline = {}
    /\ args = [cast |-> FALSE, copy |-> FALSE, reorder_output |-> FALSE,
               debug |-> FALSE]
    /\ entry = [a |-> matrix_a, b |-> matrix_b, nhandles |-> 0]
    /\ locals = NoLocals
    /\ python_c = NoMatrix
    /\ error = NoError
    /\ trace = <<>>
    /\ history = <<>>

\* the module is imported, with the width that fits the library
InitCommon ==
    /\ MKL_INT \in IntWidths
    /\ discovery = Imported(MKL_INT, MKL_INT)
    /\ pc = "idle"
    /\ NoCallYet

\* one call of dot_product_mkl on any pair of operands, with a vendor
\* library that may fail any call
Init ==
    /\ matrix_a \in OperandsA
    /\ matrix_b \in OperandsB
    /\ budget = 1
    /\ statuses = VendorStatus
    /\ InitCommon

\* repeated calls on one pair of multipliable operands, with a vendor
\* library that fails no call
InitRepeat ==
    /\ matrix_a \in { m \in OperandsA : is_csr(m) }
    /\ matrix_b \in { m \in OperandsB : is_csr(m) /\ m.shape[1] = matrix_a.shape[2] }
    /\ budget = MaxCalls
    /\ statuses = {0}
    /\ InitCommon

Next ==
    \/ dot_product_mkl
    \/ CreateA
    \/ CreateB
    \/ OrderA
    \/ OrderB
    \/ DebugExportA
    \/ DebugExportB
    \/ Matmul
    \/ ReorderOutput
    \/ Export
    \/ DebugStats
    \/ Destroy

Spec == Init /\ [][Next]_vars

SpecRepeat == InitRepeat /\ [][Next]_vars

\* the import of the module with a library of either width, then one call of
\* dot_product_mkl on one-by-one operands
InitImport ==
    /\ MKL_INT = NoWidth
    /\ discovery \in { NotStarted(lib) : lib \in IntWidths }
    /\ pc = "import"
    /\ matrix_a \in { m \in OperandsA : is_csr(m) /\ m.shape = <<1, 1>> }
    /\ matrix_b \in { m \in OperandsB : is_csr(m) /\ m.shape = <<1, 1>> }
    /\ budget = 1
    /\ statuses = VendorStatus
    /\ NoCallYet

NextImport ==
    \/ ImportModule
    \/ ValidateCreate
    \/ ValidateConvert
    \/ ValidateExport
    \/ Next

SpecImport == InitImport /\ [][NextImport]_vars


----------------------------------------------------------------------------
(* The claims.  They speak of the current call through the operands it was *)
(* given (entry), its arguments, and the way it ended.                     *)

Terminated == pc \in {"returned", "raised"}

BothCsr == entry.a.format = "csr" /\ entry.b.format = "csr"

Conformable == entry.a.shape[2] = entry.b.shape[1]

\* an operand has a zero dimension or an empty value or index array
EntryDegenerate ==
    \/ 0 \in {entry.a.shape[1], entry.a.shape[2], entry.b.shape[1], entry.b.shape[2]}
    \/ entry.a.data = <<>> \/ entry.a.indices = <<>>
    \/ entry.b.data = <<>> \/ entry.b.indices = <<>>

\* the handles the current call created
CreatedByCall == (entry.nhandles + 1)..Len(handles)

\* what a caller can compare of the outcome matrix
MatrixValue(m) ==
    IF m.format = "none" THEN <<>>
    ELSE <<m.format, m.shape, m.dtype, m.indptr, m.indices, m.data>>

\* C1: whenever dot_product_mkl returns a matrix for compressed-row operands
\* A (m x k) and B (k x n), the matrix has shape (m, n), the degenerate
\* short-circuit included.
C1_ShapeContract ==
    (pc = "returned" /\ BothCsr /\ Conformable)
        => python_c.shape = <<entry.a.shape[1], entry.b.shape[2]>>

\* C2 as stated: compressed-row, conformable operands of differing dtypes
\* and cast=False always end in a dtype-mismatch error and no matrix, also
\* when an operand is degenerate.
C2_DtypeMismatchAlways ==
    (pc # "idle" /\ BothCsr /\ Conformable
        /\ entry.a.dtype # entry.b.dtype /\ ~args.cast)
        => (pc = "raised" /\ error.kind = "DtypeMismatch" /\ python_c = NoMatrix)

\* C2 as amended: with compressed-row, conformable operands of differing
\* dtypes and cast=False, the call fails with a dtype-mismatch error naming
\* both dtypes, before any vendor call and returning no matrix, when no
\* operand is degenerate; the degenerate short-circuit comes first, so with a
\* degenerate operand the call returns an empty float64 matrix instead.
C2_DtypeMismatchUnlessDegenerate ==
    (pc # "idle" /\ BothCsr /\ Conformable
        /\ entry.a.dtype # entry.b.dtype /\ ~args.cast)
        => IF EntryDegenerate
           THEN /\ pc = "returned"
                /\ python_c.data = <<>>
                /\ python_c.dtype = "float64"
           ELSE /\ pc = "raised"
                /\ error.kind = "DtypeMismatch"
                /\ error.detail = <<entry.a.dtype, entry.b.dtype>>
                /\ python_c = NoMatrix
                /\ trace = <<>>

C2_Witness ==
    /\ pc = "raised" /\ error.kind = "DtypeMismatch"
    /\ BothCsr /\ Conformable /\ ~EntryDegenerate
    /\ entry.a.dtype = "float32" /\ entry.b.dtype = "float64" /\ ~args.cast

\* C3: on every successful return the result's dtype is float32 if and only
\* if both operands were float32 on entry, and float64 otherwise.
C3_ResultDtype ==
    pc = "returned"
        => python_c.dtype =
              IF entry.a.dtype = "float32" /\ entry.b.dtype = "float32"
              THEN "float32" ELSE "float64"

C3_Witness ==
    /\ pc = "returned" /\ python_c.dtype = "float32"
    /\ python_c.data # <<>> /\ trace # <<>>

\* C4: compressed-row operands whose inner dimensions differ make the call
\* fail with a dimension-mismatch error, whatever the options, with no vendor
\* entry point invoked and no handle created.
C4_DimensionGuard ==
    (pc # "idle" /\ BothCsr /\ ~Conformable)
        => /\ pc = "raised"
           /\ error.kind = "DimensionMismatch"
           /\ trace = <<>>
           /\ CreatedByCall = {}

C4_Witness ==
    /\ pc = "raised" /\ error.kind = "DimensionMismatch"
    /\ BothCsr /\ EntryDegenerate
    /\ args.cast /\ args.copy /\ args.reorder_output /\ args.debug

\* C5: an operand that is not compressed-row makes the call fail with an
\* unsupported-format error before any other check, with no vendor entry
\* point invoked and both operands as they were.
C5_FormatGuard ==
    (pc # "idle" /\ ~BothCsr)
        => /\ pc = "raised"
           /\ error.kind = "UnsupportedFormat"
           /\ trace = <<>>
           /\ CreatedByCall = {}
           /\ matrix_a = entry.a
           /\ matrix_b = entry.b

C5_Witness ==
    /\ pc = "raised" /\ error.kind = "UnsupportedFormat"
    /\ entry.a.format = "csc" /\ ~Conformable
    /\ entry.a.dtype # entry.b.dtype /\ entry.a.index_dtype # MKL_INT

\* C6 as stated: whenever an operand is degenerate the call returns a
\* compressed-row matrix with no stored values, invokes no vendor entry point
\* and leaves no native handle.
C6_DegenerateAlwaysReturns ==
    (pc # "idle" /\ EntryDegenerate)
        => /\ pc = "returned"
           /\ python_c.format = "csr"
           /\ python_c.data = <<>>
           /\ trace = <<>>
           /\ CreatedByCall = {}

\* C6 as amended: whenever an operand is degenerate the call invokes no
\* vendor entry point and creates no native handle; when both operands are
\* compressed-row and their inner dimensions agree it returns a
\* compressed-row matrix with no stored values (otherwise the format or the
\* dimension check has raised first).
C6_DegenerateShortCircuit ==
    (pc # "idle" /\ EntryDegenerate)
        => /\ trace = <<>>
           /\ CreatedByCall = {}
           /\ LiveHandles = baseline
           /\ (BothCsr /\ Conformable)
                 => /\ pc = "returned"
                    /\ python_c.format = "csr"
                    /\ python_c.data = <<>>
                    /\ python_c.indices = <<>>

C6_Witness ==
    /\ pc = "returned" /\ trace = <<>>
    /\ entry.a.shape = <<1, 2>> /\ entry.b.shape = <<2, 1>>
    /\ entry.a.data = <<>> /\ entry.b.data # <<>>

\* C7: when the call fails after it created a native handle, every handle it
\* created has been destroyed by the time the error reaches the caller.
C7_NoLeakOnFailure ==
    pc = "raised" => \A h \in CreatedByCall : ~handles[h].live

\* C8: after any number of successful calls made with copy=True the live
\* native handles are those that were live before the first call.
C8_NoLeakOverCalls ==
    (/\ pc = "returned" /\ args.copy
     /\ \A i \in DOMAIN history : history[i].pc = "returned" /\ history[i].args.copy)
        => LiveHandles = baseline

\* C9: on a successful non-degenerate call the result handle is destroyed if
\* and only if copy=True, and arrays of the returned matrix that view vendor
\* memory view a handle that is still live.
C9_ResultHandleLifetime ==
    (pc = "returned" /\ ~EntryDegenerate)
        => /\ locals.mkl_c \in CreatedByCall
           /\ handles[locals.mkl_c].live <=> ~args.copy
           /\ python_c.base # NoHandle
                 => /\ python_c.base = locals.mkl_c
                    /\ handles[python_c.base].live

C9_Witness ==
    /\ pc = "returned" /\ ~args.copy
    /\ python_c.base # NoHandle
    /\ handles[python_c.base].live

\* C10: the debug option has no effect on the outcome: two calls on equal
\* operands with equal cast, copy and reorder_output that differ in debug
\* alone end the same way, with an equal matrix or the same error.
C10_DebugHasNoEffect ==
    Terminated
        => \A i \in DOMAIN history :
              (/\ history[i].entry.a = entry.a
               /\ history[i].entry.b = entry.b
               /\ history[i].args.cast = args.cast
               /\ history[i].args.copy = args.copy
               /\ history[i].args.reorder_output = args.reorder_output
               /\ history[i].args.debug # args.debug)
                 => /\ history[i].pc = pc
                    /\ history[i].error = error
                    /\ MatrixValue(history[i].python_c) = MatrixValue(python_c)

----------------------------------------------------------------------------
(* The claims about the wrappers and the import of the module.             *)

\* the six named categories of a vendor failure
Categories == { RETURN_CODES[c] : c \in DOMAIN RETURN_CODES \ {0} }

\* the last run of _validate_dtype that ended
EndedAttempts == { i \in DOMAIN discovery.attempts :
                     discovery.attempts[i].outcome # "running" }

\* a wrapper has just raised: the call of dot_product_mkl ended with an
\* exception, or a run of _validate_dtype did and no vendor call was made
\* since
JustRaised ==
    \/ pc = "raised"
    \/ pc = "import_failed"
    \/ pc = "validate_create" /\ Len(discovery.attempts) = 2

\* the exception the wrapper raised
WrapperError ==
    IF pc = "raised" THEN error
    ELSE discovery.attempts[CHOOSE i \in EndedAttempts :
                               \A j \in EndedAttempts : j <= i].raised

\* the vendor call whose status made the wrapper raise: the last one, or the
\* conversion when _convert_to_csr went on to destroy its output
FailingCall ==
    IF /\ Len(trace) > 1
       /\ trace[Len(trace)].fn = "mkl_sparse_destroy"
       /\ trace[Len(trace) - 1].fn = "mkl_sparse_convert_csr"
    THEN trace[Len(trace) - 1]
    ELSE trace[Len(trace)]

\* C13: for every vendor call a wrapper makes and every nonzero status the
\* vendor returns for it, the wrapper raises the vendor-call error that
\* carries the name of the entry point and one of the six named categories.
C13_VendorFailureTyped ==
    (JustRaised /\ trace # <<>> /\ FailingCall.ret_val # 0)
        => /\ WrapperError.exc = "ValueError"
           /\ WrapperError.kind = "VendorCallFailed"
           /\ WrapperError.fn = FailingCall.fn
           /\ WrapperError.detail # <<>>
           /\ WrapperError.detail[1] \in Categories

\* the width discovery is over: the last run of _validate_dtype has ended
DiscoveryOver ==
    /\ discovery.attempts # <<>>
    /\ discovery.attempts[Len(discovery.attempts)].outcome # "running"

\* the module is imported: the last run of _validate_dtype passed
ImportOk ==
    /\ discovery.attempts # <<>>
    /\ discovery.attempts[Len(discovery.attempts)].outcome = "passed"

\* a run of _validate_dtype failed: a wrapper raised its handle error
\* (ValueError) or the comparison failed (AssertionError)
CheckFailed(attempt) ==
    /\ attempt.outcome # "running"
    /\ attempt.raised.exc \in {"ValueError", "AssertionError"}

\* C14: the width discovery binds 64-bit indices first and runs the round
\* trip; when that raises a handle error or the comparison fails it rebinds
\* with 32-bit indices and runs the round trip once more; when that fails
\* too the import fails with an initialization error.  There are at most two
\* runs, and a 64-bit run that passed is followed by no other run.
C14_WidthDiscovery ==
    LET runs == discovery.attempts
    IN  /\ Len(runs) <= 2
        /\ pc = "import" <=> runs = <<>>
        /\ runs # <<>> =>
              /\ runs[1].width = 64
              /\ runs[Len(runs)].outcome = "running" => MKL_INT = runs[Len(runs)].width
              /\ CheckFailed(runs[1]) => (Len(runs) = 2 /\ runs[2].width = 32)
              /\ runs[1].outcome = "passed" => (Len(runs) = 1 /\ MKL_INT = 64)
        /\ Len(runs) = 2 =>
              /\ CheckFailed(runs[1])
              /\ CheckFailed(runs[2]) =>
                    /\ pc = "import_failed"
                    /\ error.exc = "ImportError"
                    /\ error.kind = "InitializationFailed"
              /\ runs[2].outcome = "passed" => MKL_INT = 32
        /\ DiscoveryOver => pc \notin {"validate_create", "validate_convert",
                                       "validate_export"}

\* both runs were made: the comparison failed in the first, a wrapper
\* raised in the second
C14_Witness ==
    /\ pc = "import_failed"
    /\ error.exc = "ImportError"
    /\ Len(discovery.attempts) = 2
    /\ discovery.attempts[1].raised.exc = "AssertionError"
    /\ discovery.attempts[2].raised.kind = "VendorCallFailed"

\* the calls before call i of the trace that returned the handle of call i
CreatedBefore(i) ==
    { j \in 1..(i - 1) :
        /\ trace[j].handle = trace[i].handle
        /\ trace[j].ret_val = 0
        /\ trace[j].fn # "mkl_sparse_destroy"
        /\ trace[j].fn # "mkl_sparse_order"
        /\ trace[j].fn \notin { ExportFunc(f, d).name : f \in Formats, d \in BOOLEAN } }

\* the calls before call i of the trace that destroyed the handle of call i
DestroyedBefore(i) ==
    { j \in 1..(i - 1) :
        /\ trace[j].handle = trace[i].handle
        /\ trace[j].ret_val = 0
        /\ trace[j].fn = "mkl_sparse_destroy" }

\* C16: the vendor destroy entry point is only invoked on a handle that a
\* vendor call created or returned successfully and that no earlier call
\* destroyed.
C16_DestroyOnlyLive ==
    \A i \in DOMAIN trace :
        trace[i].fn = "mkl_sparse_destroy"
            => /\ trace[i].handle # NoHandle
               /\ CreatedBefore(i) # {}
               /\ DestroyedBefore(i) = {}

\* C17: when the width discovery is over, whether it passed or failed, no
\* handle created during it is live.
C17_DiscoveryLeavesNoHandle ==
    (DiscoveryOver /\ pc \in {"idle", "import_failed"}) => LiveHandles = {}

\* C18: once the width discovery has passed, no step changes MKL.MKL_INT
\* (and MKL.MKL_INT_NUMPY with it) or runs the discovery again, whether the
\* step is a create, export, reorder, multiply or destroy of dot_product_mkl,
\* successful or failing.
C18_WidthImmutable ==
    [][ImportOk => (MKL_INT' = MKL_INT /\ discovery' = discovery)]_vars

\* a call made after a discovery that fell back to 32-bit indices has gone
\* through its vendor calls and failed in one of them
C18_Witness ==
    /\ ImportOk /\ Len(discovery.attempts) = 2 /\ MKL_INT = 32
    /\ pc = "raised" /\ Len(trace) > 4
    /\ trace[Len(trace)].ret_val # 0

----------------------------------------------------------------------------
(* The order of the vendor calls of dot_product_mkl.                       *)

\* the entry point and the operand of every vendor call made so far
Calls(tr) == [i \in DOMAIN tr |-> <<tr[i].fn, tr[i].on>>]

IsPrefix(p, q) == Len(p) <= Len(q) /\ p = SubSeq(q, 1, Len(p))

Optional(cond, calls) == IF cond THEN calls ELSE <<>>

\* the vendor calls of a complete call as the claim lists them
ListedCalls ==
    <<<<CreateFunc("csr", matrix_a.dtype # "float32").name, "a">>,
      <<CreateFunc("csr", matrix_b.dtype # "float32").name, "b">>,
      <<"mkl_sparse_order", "a">>,
      <<"mkl_sparse_order", "b">>,
      <<"mkl_sparse_spmm", "c">>>>
    \o Optional(args.reorder_output, <<<<"mkl_sparse_order", "c">>>>)
    \o <<<<ExportFunc("csr", matrix_a.dtype # "float32"
                              \/ matrix_b.dtype # "float32").name, "c">>>>
    \o Optional(args.copy, <<<<"mkl_sparse_destroy", "c">>>>)

\* the same with the two exports the debug option makes of the operand
\* handles, between the reorder of B and the multiply
ListedCallsAndDebug ==
    SubSeq(ListedCalls, 1, 4)
    \o Optional(args.debug,
                <<<<ExportFunc("csr", matrix_a.dtype # "float32").name, "a">>,
                  <<ExportFunc("csr", matrix_b.dtype # "float32").name, "b">>>>)
    \o SubSeq(ListedCalls, 5, Len(ListedCalls))

\* every vendor call but the last one made returned success
OnlyLastMayFail == \A i \in 1..(Len(trace) - 1) : trace[i].ret_val = 0

\* C15 as stated: the vendor calls of a non-degenerate call are, in order,
\* create A, create B, reorder A, reorder B, multiply, reorder of the result
\* if requested, export of the result, destroy of the result with copy=True,
\* and no other.
C15_CallOrderAsListed ==
    pc \notin {"idle", "create_a"}
        => /\ IsPrefix(Calls(trace), ListedCalls)
           /\ (pc = "returned" /\ ~EntryDegenerate) => Calls(trace) = ListedCalls

\* C15 as amended: the vendor calls of a non-degenerate call are, in order,
\* create A, create B, reorder A, reorder B, with debug=True an export of A
\* and an export of B, then multiply, reorder of the result if requested,
\* export of the result, destroy of the result with copy=True; a call is
\* made only when all the calls before it succeeded, and a call that returns
\* has made all of them.
C15_CallOrder ==
    pc \notin {"idle", "create_a"}
        => /\ IsPrefix(Calls(trace), ListedCallsAndDebug)
           /\ OnlyLastMayFail
           /\ (pc = "returned" /\ ~EntryDegenerate)
                 => /\ Calls(trace) = ListedCallsAndDebug
                    /\ trace[Len(trace)].ret_val = 0
           /\ \A i \in DOMAIN trace :
                 /\ trace[i].fn = "mkl_sparse_spmm" => i > 4
                 /\ trace[i].fn = "mkl_sparse_destroy" => i = Len(trace)

\* a call with every option on has returned
C15_Witness ==
    /\ pc = "returned" /\ Len(trace) = 10
    /\ args.debug /\ args.copy /\ args.reorder_output

----------------------------------------------------------------------------
(* The index order of the result.                                          *)

\* products with two columns: one call on a one-row A and a two-column B of
\* the same float dtype, with a vendor library that fails no call
InitOrder ==
    /\ matrix_a \in { m \in HostMatrices({1}, 1..MaxInner, 32) :
                        is_csr(m) /\ m.dtype \in NUMPY_FLOAT_DTYPES }
    /\ matrix_b \in { m \in HostMatrices(1..MaxInner, {2}, 32) :
                        /\ is_csr(m)
                        /\ m.dtype = matrix_a.dtype
                        /\ m.shape[1] = matrix_a.shape[2] }
    /\ budget = 1
    /\ statuses = {0}
    /\ InitCommon

SpecOrder == InitOrder /\ [][Next]_vars

\* the stored entries of a host matrix as <<row, column, value>>, rows and
\* columns from 0
Entries(m) ==
    LET major(t) == CHOOSE s \in 1..(Len(m.indptr) - 1) :
                        m.indptr[s] < t /\ t <= m.indptr[s + 1]
    IN  { IF m.format = "csr" THEN <<major(t) - 1, m.indices[t], m.data[t]>>
          ELSE <<m.indices[t], major(t) - 1, m.data[t]>> : t \in 1..Len(m.data) }

\* the sum of x[3] * y[3] over a set of pairs <<x, y>> of entries
RECURSIVE SumProducts(_)
SumProducts(S) ==
    IF S = {} THEN 0
    ELSE LET xy == CHOOSE z \in S : TRUE
         IN  xy[1][3] * xy[2][3] + SumProducts(S \ {xy})

\* the entries of the product of two host matrices
ProductEntries(a, b) ==
    LET terms == { xy \in Entries(a) \X Entries(b) : xy[1][2] = xy[2][1] }
        at == { <<xy[1][1], xy[2][2]>> : xy \in terms }
    IN  { <<ij[1], ij[2],
            SumProducts({ xy \in terms : <<xy[1][1], xy[2][2]>> = ij })>> : ij \in at }

\* every row of a compressed-row matrix has strictly ascending column indices
RowsAscending(m) ==
    \A s \in 1..(Len(m.indptr) - 1) :
        \A t \in (m.indptr[s] + 1)..(m.indptr[s + 1] - 1) :
            m.indices[t] < m.indices[t + 1]

\* C11: with reorder_output=True the result handle is reordered after the
\* multiply and before the export, and every row of the returned matrix has
\* strictly ascending column indices; whatever reorder_output is, the
\* returned (row, column, value) entries are those of the product of the
\* operands, so they are the same set with and without the option.
C11_ReorderOutput ==
    (pc = "returned" /\ ~EntryDegenerate)
        => /\ Entries(python_c) = ProductEntries(entry.a, entry.b)
           /\ Len(python_c.data) = Cardinality(Entries(python_c))
           /\ args.reorder_output
                 => /\ RowsAscending(python_c)
                    /\ \E i \in DOMAIN trace :
                          /\ Calls(trace)[i] = <<"mkl_sparse_order", "c">>
                          /\ Calls(trace)[i - 1] = <<"mkl_sparse_spmm", "c">>
                          /\ Calls(trace)[i + 1][2] = "c"
                          /\ trace[i + 1].fn = ExportFunc("csr", ResultPrecision).name

\* a product with two entries in its row was returned with reorder_output
C11_Witness ==
    /\ pc = "returned" /\ args.reorder_output
    /\ python_c.shape = <<1, 2>>
    /\ python_c.indices = <<0, 1>>

\* without reorder_output a product came back with descending indices
UnorderedReturned ==
    /\ pc = "returned" /\ ~args.reorder_output
    /\ python_c.indices = <<1, 0>>

----------------------------------------------------------------------------
(* The round trip of one matrix through a vendor handle.                   *)

\* every CSR or CSC float matrix with up to MaxInner rows and columns, of
\* either index width
RoundTripMatrices ==
    UNION { { m \in HostMatrices(0..MaxInner, 0..MaxInner, w) :
                m.dtype \in NUMPY_FLOAT_DTYPES } : w \in IntWidths }

\* what the round trip holds: the handle and the precision flag returned by
\* _create_mkl_sparse
NoRoundTrip == [ref |-> NoHandle, double_precision |-> FALSE]

InitRoundTrip ==
    /\ matrix_a \in RoundTripMatrices
    /\ matrix_b = NoMatrix
    /\ budget = 0
    /\ statuses = VendorStatus
    /\ MKL_INT \in IntWidths
    /\ discovery = Imported(MKL_INT, MKL_INT)
    /\ pc = "roundtrip_create"
    /\ handles = <<>>
    /\ baseline = {}
    /\ args = [cast |-> FALSE, copy |-> FALSE, reorder_output |-> FALSE,
               debug |-> FALSE]
    /\ entry = [a |-> matrix_a, b |-> matrix_b, nhandles |-> 0]
    /\ locals = NoRoundTrip
    /\ python_c = NoMatrix
    /\ error = NoError
    /\ trace = <<>>
    /\ history = <<>>

\* ref, double_precision = _create_mkl_sparse(M)
RoundTripCreate ==
    /\ pc = "roundtrip_create"
    /\ \E ret_val \in statuses, copy \in BOOLEAN :
         LET r == _create_mkl_sparse(matrix_a, FALSE, ret_val)
         IN  /\ trace' = trace \o Tag(r.called, "m", r.ref, ret_val)
             /\ handles' = r.handles
             /\ matrix_a' = r.matrix
             /\ args' = [args EXCEPT !.copy = copy]
             /\ error' = r.error
             /\ IF r.error = NoError
                THEN /\ pc' = "roundtrip_export"
                     /\ locals' = [ref |-> r.ref,
                                   double_precision |-> r.double_precision]
                ELSE /\ pc' = "raised"
                     /\ UNCHANGED locals
    /\ UNCHANGED <<MKL_INT, discovery, statuses, matrix_b, budget, entry, python_c,
                   baseline, history>>

\* _export_mkl(ref, double_precision, output_type=M's format)
RoundTripExport ==
    /\ pc = "roundtrip_export"
    /\ \E ret_val \in statuses :
         LET r == _export_mkl(locals.ref, locals.double_precision, entry.a.format,
                              args.copy, ret_val)
         IN  /\ trace' = trace \o Tag(r.called, "m", locals.ref, ret_val)
             /\ error' = r.error
             /\ python_c' = r.matrix
             /\ pc' = IF r.error = NoError THEN "returned" ELSE "raised"
    /\ UNCHANGED <<MKL_INT, discovery, statuses, handles, matrix_a, matrix_b, budget,
                   args, entry, locals, baseline, history>>

NextRoundTrip == RoundTripCreate \/ RoundTripExport

SpecRoundTrip == InitRoundTrip /\ [][NextRoundTrip]_vars

\* C12: a CSR or CSC matrix of float32 or float64 values that went through
\* _create_mkl_sparse and then through _export_mkl, with the precision flag
\* the create returned and the matrix's own format, comes back with the same
\* format, shape, dtype and stored entries.
C12_RoundTrip ==
    (pc = "returned" /\ Len(trace) = 2)
        => /\ python_c.format = entry.a.format
           /\ python_c.shape = entry.a.shape
           /\ python_c.dtype = entry.a.dtype
           /\ Entries(python_c) = Entries(entry.a)
           /\ Len(python_c.data) = Len(entry.a.data)

\* a compressed-column float32 matrix with more columns than rows and
\* entries in two columns made the round trip with an index width other
\* than the library's
C12_Witness ==
    /\ pc = "returned" /\ Len(trace) = 2
    /\ entry.a.format = "csc" /\ entry.a.dtype = "float32"
    /\ entry.a.index_dtype # MKL_INT
    /\ entry.a.shape = <<1, 2>>
    /\ Len(python_c.data) = 2

----------------------------------------------------------------------------
(* What _export_mkl makes of the vendor's report.                          *)

\* the handle the vendor keeps for a host matrix, with the offsets and the
\* indices written from `indexing` (0: C style, 1: Fortran style)
ReportOf(m, indexing) ==
    LET shift(q) == [t \in 1..Len(q) |-> q[t] + indexing]
    IN  mkl_sparse_create(m.format, m.dtype # "float32", indexing,
            m.shape[1], m.shape[2],
            shift(SubSeq(m.indptr, 1, Len(m.indptr) - 1)),
            shift(SubSeq(m.indptr, 2, Len(m.indptr))),
            shift(m.indices), m.data)

\* the report with its last end offset replaced
WithLastEnd(h, last) ==
    IF Len(h.rows_end) = 0 THEN h
    ELSE [h EXCEPT !.rows_end[Len(h.rows_end)] = last]

\* the reports an export may meet: sound ones in both index orderings, and
\* ones whose last end offset is below the first begin offset or beyond
\* rows * cols
VendorReports ==
    UNION { UNION { { ReportOf(m, indexing),
                      WithLastEnd(ReportOf(m, indexing), indexing - 1),
                      WithLastEnd(ReportOf(m, indexing),
                                  indexing + m.shape[1] * m.shape[2] + 1) } :
                    indexing \in {0, 1} } :
            m \in { x \in HostMatrices(0..MaxInner, 0..MaxInner, 32) :
                      x.dtype \in NUMPY_FLOAT_DTYPES } }

\* what the export leaves: its arguments and the vendor buffers it read
NoExport == [output_type |-> "none", double_precision |-> FALSE, read |-> {}]

InitExport ==
    /\ handles \in { <<h>> : h \in VendorReports }
    /\ matrix_a = NoMatrix
    /\ matrix_b = NoMatrix
    /\ budget = 0
    /\ statuses = VendorStatus
    /\ MKL_INT \in IntWidths
    /\ discovery = Imported(MKL_INT, MKL_INT)
    /\ pc = "export_report"
    /\ baseline = {1}
    /\ args = [cast |-> FALSE, copy |-> FALSE, reorder_output |-> FALSE,
               debug |-> FALSE]
    /\ entry = [a |-> matrix_a, b |-> matrix_b, nhandles |-> 1]
    /\ locals = NoExport
    /\ python_c = NoMatrix
    /\ error = NoError
    /\ trace = <<>>
    /\ history = <<>>

\* _export_mkl(handle, double_precision, output_type, copy); the vendor
\* returns 0 only to the entry point of the handle's format and precision
ExportReport ==
    /\ pc = "export_report"
    /\ \E ret_val \in statuses, output_type \in Formats,
          double_precision, copy \in BOOLEAN :
         LET r == _export_mkl(1, double_precision, output_type, copy, ret_val)
         IN  /\ ret_val = 0 => /\ output_type = handles[1].format
                               /\ double_precision = handles[1].double
             /\ trace' = trace \o Tag(r.called, "m", 1, ret_val)
             /\ args' = [args EXCEPT !.copy = copy]
             /\ locals' = [output_type |-> output_type,
                           double_precision |-> double_precision,
                           read |-> r.read]
             /\ error' = r.error
             /\ python_c' = r.matrix
             /\ pc' = IF r.error = NoError THEN "returned" ELSE "raised"
    /\ UNCHANGED <<MKL_INT, discovery, statuses, handles, matrix_a, matrix_b, budget,
                   entry, baseline, history>>

NextExport == ExportReport

SpecExport == InitExport /\ [][NextExport]_vars

\* the vendor answered the export with status 0
Reported == pc \in {"returned", "raised"} /\ trace[1].ret_val = 0

\* last end offset minus first begin offset of the report
ReportedNnz ==
    LET h == handles[1]
    IN  h.rows_end[Len(h.rows_end)] - h.rows_start[1]

\* the matrix returned is empty and has the reported shape
ReturnedEmpty ==
    /\ error = NoError
    /\ python_c.shape = <<handles[1].rows, handles[1].cols>>
    /\ python_c.format = locals.output_type
    /\ Len(python_c.data) = 0
    /\ Len(python_c.indices) = 0

\* C19: a 0-based vendor export is classified by nnz, the last end offset
\* minus the first begin offset: a zero dimension gives an empty matrix of
\* the reported shape with no vendor buffer read; nnz = 0 gives an empty
\* matrix of the reported shape; nnz < 0 or nnz > rows * cols gives the
\* corrupt-export error and no matrix; any other nnz gives a matrix of the
\* reported shape with exactly nnz values and nnz indices.
C19_ExportClassification ==
    (Reported /\ handles[1].indexing = 0)
        => LET rows == handles[1].rows
               cols == handles[1].cols
           IN  IF rows = 0 \/ cols = 0
               THEN ReturnedEmpty /\ locals.read = {}
               ELSE IF ReportedNnz = 0
               THEN ReturnedEmpty
               ELSE IF ReportedNnz < 0 \/ ReportedNnz > rows * cols
               THEN /\ error.exc = "ValueError"
                    /\ error.kind = "CorruptExport"
                    /\ python_c = NoMatrix
               ELSE /\ error = NoError
                    /\ python_c.shape = <<rows, cols>>
                    /\ Len(python_c.data) = ReportedNnz
                    /\ Len(python_c.indices) = ReportedNnz

\* a report with a last end offset below the first begin offset was refused
C19_Witness ==
    /\ Reported /\ handles[1].indexing = 0
    /\ handles[1].rows = 2 /\ handles[1].cols = 1
    /\ ReportedNnz < 0
    /\ error.kind = "CorruptExport"

\* the other three classes happen as well
C19_EmptyByDimension ==
    /\ Reported /\ handles[1].indexing = 0
    /\ handles[1].rows = 0 /\ handles[1].cols = 2
    /\ python_c # NoMatrix /\ locals.read = {}

C19_EmptyByNnz ==
    /\ Reported /\ handles[1].indexing = 0
    /\ handles[1].rows = 1 /\ handles[1].cols = 1
    /\ ReportedNnz = 0 /\ python_c # NoMatrix

C19_TooMany ==
    /\ Reported /\ handles[1].indexing = 0
    /\ handles[1].rows * handles[1].cols > 0
    /\ ReportedNnz > handles[1].rows * handles[1].cols
    /\ error.kind = "CorruptExport"

C19_Full ==
    /\ Reported /\ handles[1].indexing = 0
    /\ handles[1].rows * handles[1].cols > 0
    /\ ReportedNnz = 2 /\ error = NoError /\ Len(python_c.data) = 2

\* C20: a vendor export that reports 1-based index ordering makes
\* _export_mkl raise the unsupported-index-ordering error with no matrix
\* returned and no vendor buffer read, for CSR and CSC and for single and
\* double precision.
C20_OneBasedRefused ==
    (Reported /\ handles[1].indexing # 0)
        => /\ pc = "raised"
           /\ error.exc = "ValueError"
           /\ error.kind = "UnsupportedIndexOrdering"
           /\ python_c = NoMatrix
           /\ locals.read = {}

\* a 1-based compressed-column single-precision report with a zero
\* dimension was refused
C20_Witness ==
    /\ Reported /\ handles[1].indexing = 1
    /\ locals.output_type = "csc" /\ ~locals.double_precision
    /\ handles[1].rows = 0
    /\ error.kind = "UnsupportedIndexOrdering"

\* so was a 1-based compressed-row double-precision report with entries
C20_OneBasedCsrDouble ==
    /\ Reported /\ handles[1].indexing = 1
    /\ locals.output_type = "csr" /\ locals.double_precision
    /\ Len(handles[1].values) = 2
    /\ error.kind = "UnsupportedIndexOrdering"

----------------------------------------------------------------------------
(* Exports whose first begin offset is not zero.                           *)

\* the first begin offsets tried
FirstOffsets == {0, 1}

\* a 0-based report whose offsets start at `first`: the rows of m sit
\* behind `first` other elements of the vendor's index and value buffers
OffsetReport(m, first) ==
    LET h == ReportOf(m, 0)
        pad == [t \in 1..first |-> 0]
    IN  [h EXCEPT !.rows_start = [t \in 1..Len(@) |-> @[t] + first],
                  !.rows_end = [t \in 1..Len(@) |-> @[t] + first],
                  !.col_indx = pad \o @,
                  !.values = pad \o @]

OffsetReports ==
    { OffsetReport(m, first) :
        m \in { x \in HostMatrices(0..MaxInner, 0..MaxInner, 32) :
                  x.dtype \in NUMPY_FLOAT_DTYPES },
        first \in FirstOffsets }

InitExportOffset ==
    /\ handles \in { <<h>> : h \in OffsetReports }
    /\ matrix_a = NoMatrix
    /\ matrix_b = NoMatrix
    /\ budget = 0
    /\ statuses = VendorStatus
    /\ MKL_INT \in IntWidths
    /\ discovery = Imported(MKL_INT, MKL_INT)
    /\ pc = "export_report"
    /\ baseline = {1}
    /\ args = [cast |-> FALSE, copy |-> FALSE, reorder_output |-> FALSE,
               debug |-> FALSE]
    /\ entry = [a |-> matrix_a, b |-> matrix_b, nhandles |-> 1]
    /\ locals = NoExport
    /\ python_c = NoMatrix
    /\ error = NoError
    /\ trace = <<>>
    /\ history = <<>>

SpecExportOffset == InitExportOffset /\ [][NextExport]_vars

\* the vendor answered 0 and reported entries: no zero dimension and an
\* nnz in 1..rows * cols
ReportedEntries ==
    /\ Reported
    /\ handles[1].indexing = 0
    /\ handles[1].rows > 0 /\ handles[1].cols > 0
    /\ ReportedNnz > 0
    /\ ReportedNnz <= handles[1].rows * handles[1].cols

\* C21: whatever first begin offset the vendor reports, an export with
\* entries returns a matrix whose pointer array is the first begin offset
\* followed by the end offsets (major dimension + 1 entries) and whose last
\* pointer entry is the length of its value array.
C21_ThreeArrayInvariant ==
    ReportedEntries
        => /\ error = NoError
           /\ python_c # NoMatrix
           /\ python_c.indptr = <<handles[1].rows_start[1]>> \o handles[1].rows_end
           /\ Len(python_c.indptr) =
                  MajorDim(python_c.format, python_c.shape) + 1
           /\ python_c.indptr[Len(python_c.indptr)] = Len(python_c.data)

\* the same for the reports whose first begin offset is 0
C21_ZeroFirstOffset ==
    (ReportedEntries /\ handles[1].rows_start[1] = 0) => C21_ThreeArrayInvariant

\* an export with entries and first begin offset 1 ended
C21_NonZeroFirstOffset ==
    /\ ReportedEntries
    /\ handles[1].rows_start[1] = 1
    /\ ReportedNnz = 2

\* an export with entries and first begin offset 0 returned its matrix
C21_ZeroFirstOffsetReturned ==
    /\ ReportedEntries
    /\ handles[1].rows_start[1] = 0
    /\ ReportedNnz = 2
    /\ pc = "returned"

----------------------------------------------------------------------------
(* _create_mkl_sparse on its own: every dtype, with and without cast.      *)

\* every CSR or CSC matrix with up to MaxInner rows and columns, of any
\* dtype and either index width
CreateMatrices ==
    UNION { HostMatrices(0..MaxInner, 0..MaxInner, w) : w \in IntWidths }

InitCreate ==
    /\ matrix_a \in CreateMatrices
    /\ matrix_b = NoMatrix
    /\ budget = 0
    /\ statuses = VendorStatus
    /\ MKL_INT \in IntWidths
    /\ discovery = Imported(MKL_INT, MKL_INT)
    /\ pc = "create_matrix"
    /\ handles = <<>>
    /\ baseline = {}
    /\ args = [cast |-> FALSE, copy |-> FALSE, reorder_output |-> FALSE,
               debug |-> FALSE]
    /\ entry = [a |-> matrix_a, b |-> matrix_b, nhandles |-> 0]
    /\ locals = NoRoundTrip
    /\ python_c = NoMatrix
    /\ error = NoError
    /\ trace = <<>>
    /\ history = <<>>

\* ref, double_precision = _create_mkl_sparse(matrix, cast)
CreateMatrix ==
    /\ pc = "create_matrix"
    /\ \E ret_val \in statuses, cast \in BOOLEAN :
         LET r == _create_mkl_sparse(matrix_a, cast, ret_val)
         IN  /\ trace' = trace \o Tag(r.called, "m", r.ref, ret_val)
             /\ handles' = r.handles
             /\ matrix_a' = r.matrix
             /\ args' = [args EXCEPT !.cast = cast]
             /\ error' = r.error
             /\ IF r.error = NoError
                THEN /\ pc' = "returned"
                     /\ locals' = [ref |-> r.ref,
                                   double_precision |-> r.double_precision]
                ELSE /\ pc' = "raised"
                     /\ UNCHANGED locals
    /\ UNCHANGED <<MKL_INT, discovery, statuses, matrix_b, budget, entry, python_c,
                   baseline, history>>

NextCreate == CreateMatrix

SpecCreate == InitCreate /\ [][NextCreate]_vars

\* the create entry point of a precision and a format, by name
CreateEntryPoint(double, fmt) ==
    IF double
    THEN (IF fmt = "csr" THEN "mkl_sparse_d_create_csr" ELSE "mkl_sparse_d_create_csc")
    ELSE (IF fmt = "csr" THEN "mkl_sparse_s_create_csr" ELSE "mkl_sparse_s_create_csc")

\* the call returned a handle made by the entry point of the returned flag
\* and of the matrix's format
CreatedWithFlag(flag) ==
    /\ locals.double_precision = flag
    /\ Len(trace) = 1
    /\ trace[1].fn = CreateEntryPoint(flag, entry.a.format)
    /\ trace[1].handle = locals.ref
    /\ handles[locals.ref].double = flag
    /\ handles[locals.ref].format = entry.a.format

\* C22: _create_mkl_sparse returns flag FALSE for float32 and TRUE for
\* float64; for another dtype it raises the unsupported-dtype error without
\* cast, with no vendor call, no handle and the matrix as it was, and with
\* cast it makes the values float64 and returns flag TRUE; whenever it
\* returns, the create entry point invoked is the one of the returned flag
\* and of the matrix's format.
C22_CreatePrecision ==
    (pc \in {"returned", "raised"})
        => IF entry.a.dtype = "float32"
           THEN pc = "returned" => (CreatedWithFlag(FALSE) /\ matrix_a.dtype = "float32")
           ELSE IF entry.a.dtype = "float64"
           THEN pc = "returned" => (CreatedWithFlag(TRUE) /\ matrix_a.dtype = "float64")
           ELSE IF ~args.cast
           THEN /\ pc = "raised"
                /\ error.exc = "ValueError" /\ error.kind = "UnsupportedDtype"
                /\ handles = <<>> /\ trace = <<>>
                /\ matrix_a = entry.a
           ELSE pc = "returned" => (CreatedWithFlag(TRUE) /\ matrix_a.dtype = "float64")

\* an integer compressed-column matrix was cast and handed to the
\* double-precision compressed-column entry point
C22_Witness ==
    /\ pc = "returned"
    /\ entry.a.dtype = "int64" /\ entry.a.format = "csc" /\ args.cast
    /\ Len(entry.a.data) = 2
    /\ trace[1].fn = "mkl_sparse_d_create_csc"

\* a float32 matrix went to a single-precision entry point
C22_SingleCreated ==
    /\ pc = "returned"
    /\ entry.a.dtype = "float32" /\ entry.a.format = "csr"
    /\ ~locals.double_precision

\* an integer matrix was refused without cast
C22_Refused ==
    /\ pc = "raised"
    /\ entry.a.dtype = "int64" /\ ~args.cast
    /\ error.kind = "UnsupportedDtype"

----------------------------------------------------------------------------
(* The signatures bound by MKL._set_int_type.                              *)

\* the create and export entry points _create_mkl_sparse and _export_mkl
\* can select
SelectableEntryPoints ==
    { CreateFunc(fmt, dbl).name : fmt \in Formats, dbl \in BOOLEAN }
        \cup { ExportFunc(fmt, dbl).name : fmt \in Formats, dbl \in BOOLEAN }

\* C23: once MKL._set_int_type was called with a width, each of the eight
\* create and export entry points that can be selected has its argtypes
\* bound with the width of the last call.
C23_AllSelectableBound ==
    MKL_INT # NoWidth
        => \A f \in SelectableEntryPoints : discovery.argtypes[f] = MKL_INT

\* the same for the entry points that _set_int_type assigns
C23_AssignedBound ==
    MKL_INT # NoWidth
        => \A f \in Range(ArgtypesAssigned) : discovery.argtypes[f] = MKL_INT

\* _set_int_type was called twice and the single-precision compressed-column
\* export has no argtypes
C23_UnboundAfterRebind ==
    /\ MKL_INT = 32
    /\ Len(discovery.attempts) = 2
    /\ discovery.argtypes["mkl_sparse_s_export_csc"] = NoWidth
    /\ discovery.argtypes["mkl_sparse_s_export_csr"] = 32

----------------------------------------------------------------------------
(* _type_check and _cast_to_float64 of the interface module.               *)

\* a dense numpy array, of which only the shape and the dtype matter here
DenseArray(rows, cols, dtype) ==
    [format |-> "dense", shape |-> <<rows, cols>>, dtype |-> dtype]

issparse(matrix) == matrix.format \in Formats

\* the operands _type_check may be given: sparse matrices and dense arrays
\* of every dtype
TypeCheckOperands ==
    HostMatrices({1}, 1..MaxInner, 32)
        \cup { DenseArray(1, c, dt) : c \in 1..MaxInner, dt \in Dtypes }

\* a cast that leaves its argument as it is
_cast_to_float64_Identity(matrix) == matrix

\* _cast_to_float64(matrix): matrix.data is replaced for a sparse matrix,
\* a new array is made for a dense one
_cast_to_float64(matrix) ==
    IF issparse(matrix) /\ matrix.dtype # "float64"
    THEN [matrix EXCEPT !.dtype = "float64"]
    ELSE IF matrix.dtype # "float64"
    THEN [matrix EXCEPT !.dtype = "float64"]
    ELSE matrix

\* what a Python function gives back when it ends without a return
None == [format |-> "None"]

\* _type_check(matrix_a, matrix_b, cast): the pair returned, or the error
_type_check(a, b, cast) ==
    IF a.dtype = "float32" /\ b.dtype = "float32"
    THEN [error |-> NoError, a |-> a, b |-> b]
    ELSE IF a.dtype = "float64" /\ b.dtype = "float64"
    THEN [error |-> NoError, a |-> a, b |-> b]
    ELSE IF (a.dtype # "float64" \/ b.dtype # "float64") /\ cast
    THEN [error |-> NoError, a |-> _cast_to_float64(a), b |-> _cast_to_float64(b)]
    ELSE IF a.dtype # "float64" \/ b.dtype # "float64"
    THEN [error |-> Raised("ValueError", "DtypeMismatch", "", <<a.dtype, b.dtype>>),
          a |-> None, b |-> None]
    ELSE [error |-> NoError, a |-> None, b |-> None]

InitTypeCheck ==
    /\ matrix_a \in TypeCheckOperands
    /\ matrix_b \in TypeCheckOperands
    /\ budget = 0
    /\ statuses = VendorStatus
    /\ MKL_INT \in IntWidths
    /\ discovery = Imported(MKL_INT, MKL_INT)
    /\ pc = "type_check"
    /\ handles = <<>>
    /\ baseline = {}
    /\ args = [cast |-> FALSE, copy |-> FALSE, reorder_output |-> FALSE,
               debug |-> FALSE]
    /\ entry = [a |-> matrix_a, b |-> matrix_b, nhandles |-> 0]
    /\ locals = [a |-> None, b |-> None]
    /\ python_c = NoMatrix
    /\ error = NoError
    /\ trace = <<>>
    /\ history = <<>>

\* matrix_a, matrix_b = _type_check(matrix_a, matrix_b, cast=cast)
TypeCheck ==
    /\ pc = "type_check"
    /\ \E cast \in BOOLEAN :
         LET r == _type_check(matrix_a, matrix_b, cast)
         IN  /\ args' = [args EXCEPT !.cast = cast]
             /\ error' = r.error
             /\ locals' = [a |-> r.a, b |-> r.b]
             /\ pc' = IF r.error = NoError THEN "returned" ELSE "raised"
             \* a sparse operand is cast in place: the caller's object changes
             /\ matrix_a' = IF r.error = NoError /\ issparse(matrix_a) THEN r.a
                            ELSE matrix_a
             /\ matrix_b' = IF r.error = NoError /\ issparse(matrix_b) THEN r.b
                            ELSE matrix_b
    /\ UNCHANGED <<MKL_INT, discovery, statuses, handles, budget, entry, python_c,
                   trace, baseline, history>>

NextTypeCheck == TypeCheck

SpecTypeCheck == InitTypeCheck /\ [][NextTypeCheck]_vars

\* both operands came with the same float dtype
SameFloat ==
    \/ entry.a.dtype = "float32" /\ entry.b.dtype = "float32"
    \/ entry.a.dtype = "float64" /\ entry.b.dtype = "float64"

\* C24: _type_check always ends with a pair of operands or with an error:
\* operands that are both float32 or both float64 come back unchanged; any
\* other pair comes back with float64 values when cast is set and raises the
\* dtype-mismatch error naming both dtypes when it is not; a returned pair
\* has one dtype, float32 or float64.
C24_TypeCheck ==
    (pc \in {"returned", "raised"})
        => /\ IF SameFloat
              THEN pc = "returned" /\ locals.a = entry.a /\ locals.b = entry.b
              ELSE IF args.cast
              THEN /\ pc = "returned"
                   /\ locals.a = [entry.a EXCEPT !.dtype = "float64"]
                   /\ locals.b = [entry.b EXCEPT !.dtype = "float64"]
              ELSE /\ pc = "raised"
                   /\ error.exc = "ValueError" /\ error.kind = "DtypeMismatch"
                   /\ error.detail = <<entry.a.dtype, entry.b.dtype>>
           /\ pc = "returned"
                 => /\ locals.a # None /\ locals.b # None
                    /\ locals.a.dtype = locals.b.dtype
                    /\ locals.a.dtype \in NUMPY_FLOAT_DTYPES

\* a float32 sparse matrix and an integer dense array were cast to float64
C24_Witness ==
    /\ pc = "returned" /\ args.cast
    /\ entry.a.dtype = "float32" /\ issparse(entry.a)
    /\ entry.b.dtype = "int64" /\ ~issparse(entry.b)
    /\ locals.a.dtype = "float64" /\ locals.b.dtype = "float64"

\* two integer operands were refused without cast
C24_SameIntegerRefused ==
    /\ pc = "raised" /\ ~args.cast
    /\ entry.a.dtype = "int64" /\ entry.b.dtype = "int64"

\* two float32 operands passed with cast set, as they were
C24_SingleUntouched ==
    /\ pc = "returned" /\ args.cast
    /\ entry.a.dtype = "float32" /\ locals.b.dtype = "float32"

----------------------------------------------------------------------------
(* The precision of the operands and of the result.                        *)

\* the vendor calls of the current call that are the multiply
MultiplyCalls == { i \in DOMAIN trace : trace[i].fn = "mkl_sparse_spmm" }

\* the vendor calls of the current call that export the result
ResultExports ==
    { i \in DOMAIN trace :
        /\ trace[i].on = "c"
        /\ trace[i].fn \in { ExportFunc(fmt, dbl).name :
                               fmt \in Formats, dbl \in BOOLEAN } }

\* C25: when dot_product_mkl calls the vendor multiply, the two operand
\* handles were created with the same precision, the one of the flags a_dbl
\* and b_dbl; the export of the result is the compressed-row export of that
\* precision, which is the precision of the result handle.
C25_OnePrecision ==
    /\ MultiplyCalls # {}
          => /\ locals.a_dbl = locals.b_dbl
             /\ handles[locals.mkl_a].double = locals.a_dbl
             /\ handles[locals.mkl_b].double = locals.b_dbl
    /\ \A i \in ResultExports :
          /\ MultiplyCalls # {}
          /\ trace[i].fn = (IF locals.a_dbl THEN "mkl_sparse_d_export_csr"
                            ELSE "mkl_sparse_s_export_csr")
          /\ handles[locals.mkl_c].double = locals.a_dbl

\* a float32 and an integer operand were cast, multiplied in double
\* precision and the result exported in double precision
C25_Witness ==
    /\ pc = "returned"
    /\ entry.a.dtype = "float32" /\ entry.b.dtype = "int64" /\ args.cast
    /\ MultiplyCalls # {} /\ ResultExports # {}
    /\ locals.a_dbl /\ locals.b_dbl

\* two float32 operands were multiplied and exported in single precision
C25_SingleWitness ==
    /\ pc = "returned"
    /\ entry.a.dtype = "float32" /\ entry.b.dtype = "float32"
    /\ MultiplyCalls # {} /\ ResultExports # {}
    /\ ~locals.a_dbl /\ ~locals.b_dbl

====
